---------------------------- MODULE Spec2Model ----------------------------
(***************************************************************************)
(* A model of the ogs5py file tools: the geometry (GLI) reader and writer, *)
(* the distributed medium-property reader, the restart-data (RFR) and      *)
(* particle-table (PCT) file classes and the executable downloader.        *)
(*                                                                         *)
(* Text is modelled structurally.  A line of a file is the sequence of its *)
(* whitespace-separated tokens (what line.split() returns), so a blank     *)
(* line is << >>.  A Python str value is the sequence of its words         *)
(* ("" is << >>, "a b" is <<"a", "b">>), so that writing a value into a    *)
(* line and reading the first token back is a real conversion.  An         *)
(* optional value is None == << >> or Some(v) == <<v>>.                    *)
(***************************************************************************)
EXTENDS Integers, Sequences, FiniteSets, TLC

VARIABLES
    comp,     \* which component this behaviour exercises
    gdoc,     \* GLI: the document handed to save_ogs5gli
    gtop,     \* GLI: the top_com argument of save_ogs5gli (a str)
    gfile,    \* GLI: the lines of the file on disk
    gpos,     \* GLI: index of the next line the reader will read
    gline,    \* GLI: the reader's variable `line` (stripped, as tokens)
    gout,     \* GLI: the reader's variable `out`
    gcur,     \* GLI: the block (ply / srf / vol) being read
    gpc,      \* GLI: where the reader stands
    gerr,     \* GLI: the line named by the reader's ValueError
    mfile,    \* MPD: the lines of the distributed-property file
    mpos,     \* MPD: index of the next line readline() returns
    mfound,   \* MPD: found_start
    mout,     \* MPD: the reader's variable `out`, a mapping
    mpc,      \* MPD: "read", "done" or the exception raised
    mseen,    \* MPD: the line numbers line 357 has read, in order (history)
    mret,     \* MPD: what the call returned
    fcls,     \* file object: its class, "RFR" or "PCT"
    self_task_root, \* file object: self.task_root
    self_task_id,  \* file object: self.task_id
    self_file_ext, \* file object: self.file_ext (RFR), self.f_type (PCT)
    self_file_name, \* RFR: self.file_name
    self_line1_4,  \* RFR: self.line1_4, a list of str
    self_s_flag,   \* PCT: self.s_flag
    self_data,     \* file object: self.data, an array
    disk,     \* the files on disk: path -> lines
    dirs,     \* the directories on disk
    last,     \* the last call on the object: what, with what, how it ended
    saved,    \* what the last save wrote, and where (history)
    dl_pc,      \* download_ogs: where the call stands
    dl_version, \* download_ogs: the argument version
    dl_system,  \* download_ogs: system (None until line 114 has run)
    dl_name,    \* download_ogs: name (None until line 120 has run)
    dl_host,    \* what platform.system() returns
    dl_url,     \* download_ogs: ogs_url
    dl_ext,     \* download_ogs: ext
    dl_names,   \* download_ogs: names, the entries of the archive
    dl_i,       \* download_ogs: position of the loop over names
    dl_found,   \* download_ogs: found
    dl_exc,     \* download_ogs: the exception in flight or raised
    dl_ret,     \* download_ogs: the value returned
    dl_destdir, \* disk: whether the directory `path` exists
    dl_destfile, \* disk: what the file at dest holds, if there is one
    dl_tmpdir,  \* disk: the temporary directory: none, exists, removed
    dl_tmpfiles, \* disk: the files in the temporary directory
    dl_zopen,   \* whether z_file is open
    dl_log,     \* the calls made to the system so far (history)
    vw_pc,         \* viewer: where show_mesh stands
    vw_avail,      \* viewer: MAYA_AVAIL
    vw_mesh,       \* viewer: the argument mesh (its material_id mapping)
    vw_cell,       \* viewer: the argument show_cell_data
    vw_mat,        \* viewer: the argument show_material_id
    vw_elem,       \* viewer: the argument show_element_id
    vw_name,       \* viewer: cell_data_name ("" while unbound)
    vw_tmp,        \* viewer: vtkfile, "none", "open" or "deleted"
    vw_log,        \* viewer: calls made to mlab, the exporter and print
    vw_surf,       \* viewer: the properties of surface, once there is one
    vw_ret,        \* viewer: what the call returned
    tl_pc,        \* tools: where the call stands
    tl_data,      \* tools: the array argument, by rows
    tl_arg,       \* tools: decimals, or the vector
    tl_mid,       \* tools: the locals of the call
    tl_ret,       \* tools: what the call returned
    tl_exc,       \* tools: the exception raised, if any
    mm_cont,      \* MMP: the blocks of the file, in order
    mm_last       \* MMP: the last add_block call and how it ended

gliVars == <<gdoc, gtop, gfile, gpos, gline, gout, gcur, gpc, gerr>>

mpdVars == <<mfile, mpos, mfound, mout, mpc, mseen, mret>>

fileVars ==
    <<fcls, self_task_root, self_task_id, self_file_ext, self_file_name, self_line1_4, self_s_flag, self_data,
      disk, dirs, last, saved>>

viewVars ==
    <<vw_pc, vw_avail, vw_mesh, vw_cell, vw_mat, vw_elem, vw_name, vw_tmp,
      vw_log, vw_surf, vw_ret>>

dlVars ==
    <<dl_pc, dl_version, dl_system, dl_name, dl_host, dl_url, dl_ext, dl_names,
      dl_i, dl_found, dl_exc, dl_ret, dl_destdir, dl_destfile, dl_tmpdir,
      dl_tmpfiles, dl_zopen, dl_log>>

toolVars == <<tl_pc, tl_data, tl_arg, tl_mid, tl_ret, tl_exc>>

mmpVars == <<mm_cont, mm_last>>

vars == <<comp, gliVars, mpdVars, fileVars, dlVars, viewVars, toolVars, mmpVars>>

\* what the steps of one component leave alone
nonGli == <<mpdVars, fileVars, dlVars, viewVars, toolVars, mmpVars>>

nonMpd == <<gliVars, fileVars, dlVars, viewVars, toolVars, mmpVars>>

nonFile == <<gliVars, mpdVars, dlVars, viewVars, toolVars, mmpVars>>

nonDl == <<gliVars, mpdVars, fileVars, viewVars, toolVars, mmpVars>>

nonView == <<gliVars, mpdVars, fileVars, dlVars, toolVars, mmpVars>>

nonTool == <<gliVars, mpdVars, fileVars, dlVars, viewVars, mmpVars>>

nonMmp == <<gliVars, mpdVars, fileVars, dlVars, viewVars, toolVars>>

--------------------------------------------------------------------------
(* Generic helpers *)

None == << >>

Some(v) == <<v>>

Range(s) == {s[i] : i \in 1..Len(s)}

\* All sequences over S of length lo..hi
SeqsOf(S, lo, hi) == UNION {[1..n -> S] : n \in lo..hi}

\* Python's list.index: position of the first occurrence of x in s
IndexOf(s, x) == CHOOSE i \in 1..Len(s) : s[i] = x /\ \A j \in 1..(i-1) : s[j] # x

--------------------------------------------------------------------------
(* Bounds of the model *)

\* most points of a generated document
MaxPts == 2

\* most polylines / surfaces / volumes in the varied section of a document
MaxBlocks == 2

\* most lines of a hand-made (not saved) geometry file
MaxRawLen == 4

--------------------------------------------------------------------------
(* Numbers and their text.  Integers are 0..12 and -1; floats are counted  *)
(* in halves (0 is 0.0, 1 is 0.5, 2 is 1.0, 3 is 1.5), with NegInf for     *)
(* -np.inf.                                                                *)

NegInf == -1000

\* the decimal text of the ints 0..12
Digits ==
    <<"0", "1", "2", "3", "4", "5", "6", "7", "8", "9", "10", "11", "12">>

\* str(n) / "{}".format(n) for a non-negative int
FmtInt(n) == Digits[n + 1]

\* str.isdigit() on a token
IsDigitTok(tok) == tok \in Range(Digits)

IntToks == Range(Digits) \cup {"-1"}

\* int(tok), for a token int() accepts
ParseInt(tok) == IF tok = "-1" THEN -1 ELSE IndexOf(Digits, tok) - 1

FloatText == <<"0.0", "0.5", "1.0", "1.5">>

\* "{}".format(x) for a float
FmtFloat(x) == IF x = NegInf THEN "-inf" ELSE FloatText[x + 1]

FloatToks == Range(FloatText) \cup Range(Digits) \cup {"-inf"}

\* float(tok), for a token float() accepts: "1" and "1.0" are the same float
ParseFloat(tok) ==
    IF tok = "-inf" THEN NegInf
    ELSE IF tok \in Range(Digits) THEN 2 * (IndexOf(Digits, tok) - 1)
    ELSE IndexOf(FloatText, tok) - 1

\* line[0].isdigit(): the first character of the token is a digit
DigitStart(tok) == tok \in Range(Digits) \cup Range(FloatText)

--------------------------------------------------------------------------
(* Geometry (GLI): keyword tables and templates of ogs5py.tools._types     *)

GLI_KEY_LIST == <<"#POINTS", "#POLYLINE", "#SURFACE", "#VOLUME", "#STOP">>

PLY_KEY_LIST ==
    <<"ID", "NAME", "POINTS", "EPSILON", "TYPE", "MAT_GROUP", "POINT_VECTOR">>

PLY_TYPES == <<"int", "str", "list", "float", "int", "int", "str">>

SRF_KEY_LIST ==
    <<"ID", "NAME", "POLYLINES", "EPSILON", "TYPE", "MAT_GROUP", "TIN">>

SRF_TYPES == <<"int", "str", "list", "float", "int", "int", "str">>

VOL_KEY_LIST == <<"NAME", "SURFACES", "TYPE", "MAT_GROUP", "LAYER">>

VOL_TYPES == <<"str", "list", "int", "int", "int">>

EMPTY_PLY == [k \in Range(PLY_KEY_LIST) |-> None]

EMPTY_SRF == [k \in Range(SRF_KEY_LIST) |-> None]

EMPTY_VOL == [k \in Range(VOL_KEY_LIST) |-> None]

EMPTY_GLI ==
    [points |-> None, point_names |-> None, point_md |-> None,
     polylines |-> << >>, surfaces |-> << >>, volumes |-> << >>]

\* The three block kinds share one code pattern; these select its tables.
Kinds == {"ply", "srf", "vol"}

KeyList(kind) ==
    CASE kind = "ply" -> PLY_KEY_LIST
      [] kind = "srf" -> SRF_KEY_LIST
      [] kind = "vol" -> VOL_KEY_LIST

KeyTypes(kind) ==
    CASE kind = "ply" -> PLY_TYPES
      [] kind = "srf" -> SRF_TYPES
      [] kind = "vol" -> VOL_TYPES

\* the sub-keyword whose value is a run of lines
ListKey(kind) ==
    CASE kind = "ply" -> "POINTS"
      [] kind = "srf" -> "POLYLINES"
      [] kind = "vol" -> "SURFACES"

EmptyBlock(kind) ==
    CASE kind = "ply" -> EMPTY_PLY
      [] kind = "srf" -> EMPTY_SRF
      [] kind = "vol" -> EMPTY_VOL

OutField(kind) ==
    CASE kind = "ply" -> "polylines"
      [] kind = "srf" -> "surfaces"
      [] kind = "vol" -> "volumes"

\* "$" + key
Dollar(key) ==
    CASE key = "ID" -> "$ID"
      [] key = "NAME" -> "$NAME"
      [] key = "POINTS" -> "$POINTS"
      [] key = "EPSILON" -> "$EPSILON"
      [] key = "TYPE" -> "$TYPE"
      [] key = "MAT_GROUP" -> "$MAT_GROUP"
      [] key = "POINT_VECTOR" -> "$POINT_VECTOR"
      [] key = "POLYLINES" -> "$POLYLINES"
      [] key = "TIN" -> "$TIN"
      [] key = "SURFACES" -> "$SURFACES"
      [] key = "LAYER" -> "$LAYER"

--------------------------------------------------------------------------
(* save_ogs5gli *)

\* "  {}".format(value), as the tokens of the written line
FmtVal(typ, v) ==
    CASE typ = "int" -> <<FmtInt(v)>>
      [] typ = "float" -> <<FmtFloat(v)>>
      [] typ = "str" -> v

\* the line of point i (1-based here, written with index i-1)
PointLine(gli, i) ==
    LET pnt == gli.points[1][i]
        name == IF gli.point_names[1][i] # << >>
                THEN <<"$NAME">> \o gli.point_names[1][i] ELSE << >>
        md == IF gli.point_md[1][i] = NegInf
              THEN << >> ELSE <<"$MD", FmtFloat(gli.point_md[1][i])>>
    IN  <<FmtInt(i - 1), FmtFloat(pnt[1]), FmtFloat(pnt[2]), FmtFloat(pnt[3])>>
            \o name \o md

\* the lines one `for key in ..._KEY_LIST` pass writes for key number i
KeyLines(kind, blk, i) ==
    LET key == KeyList(kind)[i]
        v == blk[key]
    IN  IF key # ListKey(kind) /\ v # None
        THEN << <<Dollar(key)>>, FmtVal(KeyTypes(kind)[i], v[1]) >>
        ELSE IF v # None
        THEN << <<Dollar(ListKey(kind))>> >> \o
             [j \in 1..Len(v[1]) |->
                IF kind = "ply" THEN <<FmtInt(v[1][j])>> ELSE v[1][j]]
        ELSE << >>

RECURSIVE BlockKeyLines(_, _, _)
BlockKeyLines(kind, blk, i) ==
    IF i > Len(KeyList(kind)) THEN << >>
    ELSE KeyLines(kind, blk, i) \o BlockKeyLines(kind, blk, i + 1)

BlockHeader(kind) ==
    CASE kind = "ply" -> <<"#POLYLINE">>
      [] kind = "srf" -> <<"#SURFACE">>
      [] kind = "vol" -> <<"#VOLUME">>

RECURSIVE BlocksLines(_, _, _)
BlocksLines(kind, blks, i) ==
    IF i > Len(blks) THEN << >>
    ELSE <<BlockHeader(kind)>> \o BlockKeyLines(kind, blks[i], 1)
            \o BlocksLines(kind, blks, i + 1)

\* the lines of the file save_ogs5gli(filepath, gli, top_com) writes
save_ogs5gli(gli, top_com) ==
    (IF top_com # << >> THEN <<top_com>> ELSE << >>)
    \o << <<"#POINTS">> >>
    \o [i \in 1..Len(gli.points[1]) |-> PointLine(gli, i)]
    \o BlocksLines("ply", gli.polylines, 1)
    \o BlocksLines("srf", gli.surfaces, 1)
    \o BlocksLines("vol", gli.volumes, 1)
    \o << <<"#STOP">> >>

--------------------------------------------------------------------------
(* load_ogs5gli: reading primitives *)

\* gli.readline().strip() as tokens; "" at end of file
Readline(f, p) == IF p > Len(f) THEN << >> ELSE f[p]

\* the file position after a readline
Advance(f, p) == IF p > Len(f) THEN p ELSE p + 1

\* line.startswith(key)
StartsWith(line, key) == line # << >> /\ line[1] = key

\* any([line.startswith(key) for key in GLI_KEY_LIST])
StartsWithGliKey(line) == \E i \in 1..Len(GLI_KEY_LIST) : StartsWith(line, GLI_KEY_LIST[i])

\* GLI_KEY_LIST + ["$" + k for k in <kind>_KEY_LIST]
StopKeys(kind) == Range(GLI_KEY_LIST) \cup {Dollar(k) : k \in Range(KeyList(kind))}

\* (mutant) the membership test never succeeds
LineInStopKeys_Never(kind, line) == FALSE

\* line in (GLI_KEY_LIST + ["$" + k ...]): the whole stripped line is a key
LineInStopKeys(kind, line) == Len(line) = 1 /\ line[1] \in StopKeys(kind)

\* the key with line[1:] == key, key in <kind>_KEY_LIST; "" when there is none
SubKeyOf(kind, line) ==
    IF Len(line) = 1 /\ \E k \in Range(KeyList(kind)) : Dollar(k) = line[1]
    THEN CHOOSE k \in Range(KeyList(kind)) : Dollar(k) = line[1]
    ELSE ""

\* (mutant) the name of a record is not kept
ParsePoint_Unnamed(ln) ==
    LET hi == IF Len(ln) < 4 THEN Len(ln) ELSE 4
        coords == SubSeq(ln, 2, hi)
        hasName == "$NAME" \in Range(ln)
        hasMd == "$MD" \in Range(ln)
        bad == [err |-> "ValueError", pnt |-> << >>, name |-> << >>, md |-> 0]
    IN  IF \E i \in 1..Len(coords) : coords[i] \notin FloatToks THEN bad
        ELSE IF Len(coords) # 3 THEN bad
        ELSE IF hasName /\ IndexOf(ln, "$NAME") = Len(ln)
        THEN [bad EXCEPT !.err = "IndexError"]
        ELSE IF hasMd /\ IndexOf(ln, "$MD") = Len(ln)
        THEN [bad EXCEPT !.err = "IndexError"]
        ELSE IF hasMd /\ ln[IndexOf(ln, "$MD") + 1] \notin FloatToks THEN bad
        ELSE [err |-> "",
              pnt |-> [i \in 1..3 |-> ParseFloat(coords[i])],
              name |-> << >>,
              md |-> IF hasMd THEN ParseFloat(ln[IndexOf(ln, "$MD") + 1]) ELSE NegInf]

\* one point record, lines 84-96: the error raised, or the parsed values
ParsePoint(ln) ==
    LET hi == IF Len(ln) < 4 THEN Len(ln) ELSE 4
        coords == SubSeq(ln, 2, hi)
        hasName == "$NAME" \in Range(ln)
        hasMd == "$MD" \in Range(ln)
        bad == [err |-> "ValueError", pnt |-> << >>, name |-> << >>, md |-> 0]
    IN  IF \E i \in 1..Len(coords) : coords[i] \notin FloatToks THEN bad
        ELSE IF Len(coords) # 3 THEN bad
        ELSE IF hasName /\ IndexOf(ln, "$NAME") = Len(ln)
        THEN [bad EXCEPT !.err = "IndexError"]
        ELSE IF hasMd /\ IndexOf(ln, "$MD") = Len(ln)
        THEN [bad EXCEPT !.err = "IndexError"]
        ELSE IF hasMd /\ ln[IndexOf(ln, "$MD") + 1] \notin FloatToks THEN bad
        ELSE [err |-> "",
              pnt |-> [i \in 1..3 |-> ParseFloat(coords[i])],
              name |-> IF hasName THEN <<ln[IndexOf(ln, "$NAME") + 1]>> ELSE << >>,
              md |-> IF hasMd THEN ParseFloat(ln[IndexOf(ln, "$MD") + 1]) ELSE NegInf]

\* the `while line and line[0].isdigit()` loop of the #POINTS branch, entered
\* with `line` read and the file at p
RECURSIVE ReadPoints(_, _, _, _, _, _)
ReadPoints(f, line, p, pnts, names, mds) ==
    IF line # << >> /\ DigitStart(line[1])
    THEN LET r == ParsePoint(line)
         IN  IF r.err # ""
             THEN [err |-> r.err, pnts |-> pnts, names |-> names, mds |-> mds,
                   line |-> line, pos |-> p]
             ELSE ReadPoints(f, Readline(f, p), Advance(f, p),
                             Append(pnts, r.pnt), Append(names, r.name),
                             Append(mds, r.md))
    ELSE [err |-> "", pnts |-> pnts, names |-> names, mds |-> mds,
          line |-> line, pos |-> p]

\* the loop condition of a run of value lines under $POINTS / $POLYLINES /
\* $SURFACES (lines 117, 146-148, 176-178)
RunContinues(kind, line) ==
    IF kind = "ply"
    THEN line # << >> /\ IsDigitTok(line[1])
    ELSE line # << >> /\ ~LineInStopKeys(kind, line)

\* the item a run line contributes (lines 118, 149, 179)
RunItem(kind, line) == IF kind = "ply" THEN ParseInt(line[1]) ELSE <<line[1]>>

RECURSIVE ReadRun(_, _, _, _, _)
ReadRun(kind, f, line, p, items) ==
    IF RunContinues(kind, line)
    THEN ReadRun(kind, f, Readline(f, p), Advance(f, p),
                 Append(items, RunItem(kind, line)))
    ELSE [items |-> items, line |-> line, pos |-> p]

\* <typ>(token) of lines 126, 156, 186: whether the conversion raises
ConvFails(typ, tok) ==
    CASE typ = "int" -> tok \notin IntToks
      [] typ = "float" -> tok \notin FloatToks
      [] typ = "str" -> FALSE

ConvVal(typ, tok) ==
    CASE typ = "int" -> ParseInt(tok)
      [] typ = "float" -> ParseFloat(tok)
      [] typ = "str" -> <<tok>>

TypeOfKey(kind, key) == KeyTypes(kind)[IndexOf(KeyList(kind), key)]

--------------------------------------------------------------------------
(* load_ogs5gli: the reader as a state machine.  gpc is                    *)
(*   "save"  a document waits to be written                                *)
(*   "open"  the file is written, the reader has not started               *)
(*   "top"   at `while reading:` (line 63)                                 *)
(*   "test"  at the `while not any(...)` test of a block (lines 110/139/169)*)
(*   "body"  inside that loop's body                                       *)
(*   "done"  returned `out`; or the name of the exception raised.          *)

NoCur == [kind |-> "none", blk |-> << >>]

GliErrors == {"EOFError", "ValueError_unknown", "ValueError", "IndexError"}

GliTerminal == GliErrors \cup {"done"}

\* lines 253-324
GliSave(top_com) ==
    /\ comp = "gli" /\ gpc = "save"
    /\ gfile' = save_ogs5gli(gdoc, top_com)
    /\ gtop' = top_com
    /\ gpc' = "open"
    /\ UNCHANGED <<comp, gdoc, gpos, gline, gout, gcur, gerr, nonGli>>

\* lines 56-62: out = dcp(EMPTY_GLI); line = gli.readline().strip()
GliOpen ==
    /\ comp = "gli" /\ gpc = "open"
    /\ gout' = EMPTY_GLI
    /\ gline' = Readline(gfile, 1)
    /\ gpos' = Advance(gfile, 1)
    /\ gpc' = "top"
    /\ UNCHANGED <<comp, gdoc, gtop, gfile, gcur, gerr, nonGli>>

\* (mutant) the look-ahead is one line too eager
EofCheck_OneEarly(f, line, p) == p >= Len(f) /\ ~StartsWith(line, "#STOP")

\* line 66: the look-ahead readline returns "" and line is not #STOP
EofCheck(f, line, p) == p > Len(f) /\ ~StartsWith(line, "#STOP")

\* lines 65-67
GliTopEof ==
    /\ comp = "gli" /\ gpc = "top"
    /\ EofCheck(gfile, gline, gpos)
    /\ gpc' = "EOFError"
    /\ UNCHANGED <<comp, gdoc, gtop, gfile, gpos, gline, gout, gcur, gerr, nonGli>>

\* lines 71-73
GliTopBlank ==
    /\ comp = "gli" /\ gpc = "top"
    /\ ~EofCheck(gfile, gline, gpos)
    /\ gline = << >>
    /\ gline' = Readline(gfile, gpos)
    /\ gpos' = Advance(gfile, gpos)
    /\ UNCHANGED <<comp, gdoc, gtop, gfile, gout, gcur, gpc, gerr, nonGli>>

\* lines 76-101
GliTopPoints ==
    /\ comp = "gli" /\ gpc = "top"
    /\ ~EofCheck(gfile, gline, gpos)
    /\ StartsWith(gline, "#POINTS")
    /\ LET r == ReadPoints(gfile, Readline(gfile, gpos), Advance(gfile, gpos),
                           << >>, << >>, << >>)
       IN  IF r.err # ""
           THEN /\ gpc' = r.err
                /\ UNCHANGED <<gline, gpos, gout>>
           ELSE /\ gout' = [gout EXCEPT !.points = Some(r.pnts),
                                        !.point_names = Some(r.names),
                                        !.point_md = Some(r.mds)]
                /\ gline' = r.line
                /\ gpos' = r.pos
                /\ gpc' = "top"
    /\ UNCHANGED <<comp, gdoc, gtop, gfile, gcur, gerr, nonGli>>

\* lines 104-108, 133-137, 163-167: a block opens
GliTopBlock(kind) ==
    /\ comp = "gli" /\ gpc = "top"
    /\ ~EofCheck(gfile, gline, gpos)
    /\ StartsWith(gline, BlockHeader(kind)[1])
    /\ gcur' = [kind |-> kind, blk |-> EmptyBlock(kind)]
    /\ gline' = Readline(gfile, gpos)
    /\ gpos' = Advance(gfile, gpos)
    /\ gpc' = "test"
    /\ UNCHANGED <<comp, gdoc, gtop, gfile, gout, gerr, nonGli>>

\* lines 193-197
GliTopStop ==
    /\ comp = "gli" /\ gpc = "top"
    /\ ~EofCheck(gfile, gline, gpos)
    /\ StartsWith(gline, "#STOP")
    /\ gpc' = "done"
    /\ UNCHANGED <<comp, gdoc, gtop, gfile, gpos, gline, gout, gcur, gerr, nonGli>>

\* lines 200-202
GliTopUnknown ==
    /\ comp = "gli" /\ gpc = "top"
    /\ ~EofCheck(gfile, gline, gpos)
    /\ gline # << >>
    /\ ~StartsWithGliKey(gline)
    /\ gpc' = "ValueError_unknown"
    /\ gerr' = gline
    /\ UNCHANGED <<comp, gdoc, gtop, gfile, gpos, gline, gout, gcur, nonGli>>

\* lines 110, 139, 169 and, when the loop ends, 129-130, 159-160, 189-190
GliBlockTest ==
    /\ comp = "gli" /\ gpc = "test"
    /\ IF StartsWithGliKey(gline)
       THEN /\ gout' = [gout EXCEPT ![OutField(gcur.kind)] = Append(@, gcur.blk)]
            /\ gcur' = NoCur
            /\ gpc' = "top"
       ELSE /\ gpc' = "body"
            /\ UNCHANGED <<gout, gcur>>
    /\ UNCHANGED <<comp, gdoc, gtop, gfile, gpos, gline, gerr, nonGli>>

\* one pass of the loop body, lines 111-128, 140-158, 170-188
BlockBody(kind, blk, f, line, p) ==
    LET key == SubKeyOf(kind, line)
        next == [pc |-> "test", blk |-> blk, line |-> Readline(f, p),
                 pos |-> Advance(f, p)]
    IN  IF key = "" THEN next
        ELSE IF key = ListKey(kind)
        THEN LET r == ReadRun(kind, f, Readline(f, p), Advance(f, p), << >>)
                 got == [blk EXCEPT ![key] = Some(r.items)]
             IN  IF LineInStopKeys(kind, r.line)
                 THEN [pc |-> "test", blk |-> got, line |-> r.line, pos |-> r.pos]
                 ELSE [pc |-> "test", blk |-> got, line |-> Readline(f, r.pos),
                       pos |-> Advance(f, r.pos)]
        ELSE LET val == Readline(f, p)
                 q == Advance(f, p)
                 typ == TypeOfKey(kind, key)
             IN  IF val = << >>
                 THEN [next EXCEPT !.pc = "IndexError"]
                 ELSE IF ConvFails(typ, val[1])
                 THEN [next EXCEPT !.pc = "ValueError"]
                 ELSE [pc |-> "test",
                       blk |-> [blk EXCEPT ![key] = Some(ConvVal(typ, val[1]))],
                       line |-> Readline(f, q), pos |-> Advance(f, q)]

GliBlockBody ==
    /\ comp = "gli" /\ gpc = "body"
    /\ LET r == BlockBody(gcur.kind, gcur.blk, gfile, gline, gpos)
       IN  /\ gpc' = r.pc
           /\ gcur' = [gcur EXCEPT !.blk = r.blk]
           /\ gline' = r.line
           /\ gpos' = r.pos
    /\ UNCHANGED <<comp, gdoc, gtop, gfile, gout, gerr, nonGli>>

--------------------------------------------------------------------------
(* The state of the components a behaviour does not exercise *)

\* a behaviour exercises one component; the others stay as constructed
GliIdle ==
    /\ gdoc = EMPTY_GLI /\ gtop = << >> /\ gfile = << >> /\ gpos = 1
    /\ gline = << >> /\ gout = EMPTY_GLI /\ gcur = NoCur
    /\ gpc = "idle" /\ gerr = << >>

MpdIdle ==
    /\ mfile = << >> /\ mpos = 1 /\ mfound = FALSE /\ mout = << >>
    /\ mpc = "idle" /\ mseen = << >> /\ mret = None

FileIdle ==
    /\ fcls = "none" /\ self_task_root = "" /\ self_task_id = "" /\ self_file_ext = ""
    /\ self_file_name = "" /\ self_line1_4 = << >> /\ self_s_flag = 0
    /\ self_data = [shape |-> <<0>>, flat |-> << >>]
    /\ disk = << >> /\ dirs = {}
    /\ last = [op |-> "none", arg |-> None, ret |-> "None", exc |-> "none"]
    /\ saved = None

DlIdle ==
    /\ dl_pc = "idle" /\ dl_version = "" /\ dl_system = None /\ dl_name = None
    /\ dl_host = "" /\ dl_url = None /\ dl_ext = "" /\ dl_names = << >>
    /\ dl_i = 1 /\ dl_found = FALSE /\ dl_exc = "none" /\ dl_ret = None
    /\ dl_destdir = FALSE /\ dl_destfile = None /\ dl_tmpdir = "none"
    /\ dl_tmpfiles = {} /\ dl_zopen = FALSE /\ dl_log = << >>

ViewIdle ==
    /\ vw_pc = "idle" /\ vw_avail = FALSE /\ vw_mesh = << >> /\ vw_cell = None
    /\ vw_mat = FALSE /\ vw_elem = FALSE /\ vw_name = "" /\ vw_tmp = "none"
    /\ vw_log = << >> /\ vw_surf = None /\ vw_ret = "none"

ToolIdle ==
    /\ tl_pc = "idle"
    /\ tl_data = << >>
    /\ tl_arg = << >>
    /\ tl_mid = << >>
    /\ tl_ret = << >>
    /\ tl_exc = "none"

MmpIdle ==
    /\ mm_cont = << >>
    /\ mm_last = << >>

Idle(c) ==
    /\ IF c = "gli" THEN TRUE ELSE GliIdle
    /\ IF c = "mpd" THEN TRUE ELSE MpdIdle
    /\ IF c \in {"rfr", "pct", "path"} THEN TRUE ELSE FileIdle
    /\ IF c = "dl" THEN TRUE ELSE DlIdle
    /\ IF c = "view" THEN TRUE ELSE ViewIdle
    /\ IF c \in {"unique", "shift"} THEN TRUE ELSE ToolIdle
    /\ IF c = "mmp" THEN TRUE ELSE MmpIdle

--------------------------------------------------------------------------
(* Inputs of the geometry model: documents to save, and hand-made files    *)

\* blk with the given keys set
With(blk, kv) == [k \in DOMAIN blk |-> IF k \in DOMAIN kv THEN Some(kv[k]) ELSE blk[k]]

PointSamples ==
    { [xyz |-> <<0, 1, 3>>, name |-> << >>, md |-> NegInf],
      [xyz |-> <<2, 2, 0>>, name |-> <<"a">>, md |-> 3],
      [xyz |-> <<3, 0, 1>>, name |-> <<"b">>, md |-> NegInf],
      [xyz |-> <<1, 1, 1>>, name |-> << >>, md |-> 0],
      [xyz |-> <<0, 0, 0>>, name |-> <<"a", "b">>, md |-> NegInf] }

PlySamples ==
    { EMPTY_PLY,
      With(EMPTY_PLY, [ID |-> 1, NAME |-> <<"a">>, POINTS |-> <<0, 1>>]),
      With(EMPTY_PLY, [NAME |-> <<"b">>, POINTS |-> <<1, 0>>, EPSILON |-> 1,
                       TYPE |-> 2, MAT_GROUP |-> 0, POINT_VECTOR |-> <<"a">>]),
      With(EMPTY_PLY, [POINTS |-> << >>]),
      With(EMPTY_PLY, [ID |-> 0, EPSILON |-> 3]),
      With(EMPTY_PLY, [POINTS |-> <<1>>, POINT_VECTOR |-> <<"b">>]),
      With(EMPTY_PLY, [NAME |-> << >>, POINTS |-> <<0, 1>>]),
      With(EMPTY_PLY, [NAME |-> <<"a", "b">>, POINTS |-> <<0>>]) }

SrfSamples ==
    { EMPTY_SRF,
      With(EMPTY_SRF, [ID |-> 1, NAME |-> <<"a">>,
                       POLYLINES |-> << <<"a">>, <<"b">> >>]),
      With(EMPTY_SRF, [POLYLINES |-> << >>]),
      With(EMPTY_SRF, [NAME |-> <<"b">>, POLYLINES |-> << <<"b">> >>,
                       EPSILON |-> 1, TYPE |-> 0, MAT_GROUP |-> 3,
                       TIN |-> <<"a">>]),
      With(EMPTY_SRF, [POLYLINES |-> << <<"a">>, << >>, <<"b">> >>]),
      With(EMPTY_SRF, [POLYLINES |-> << <<"a", "b">> >>]),
      With(EMPTY_SRF, [TIN |-> << >>]) }

VolSamples ==
    { EMPTY_VOL,
      With(EMPTY_VOL, [NAME |-> <<"a">>, SURFACES |-> << <<"a">> >>]),
      With(EMPTY_VOL, [SURFACES |-> << <<"b">>, <<"a">> >>, TYPE |-> 1,
                       MAT_GROUP |-> 2, LAYER |-> 3]),
      With(EMPTY_VOL, [SURFACES |-> << >>]),
      With(EMPTY_VOL, [NAME |-> <<"a", "b">>, LAYER |-> 0]) }

\* a document from its point records and blocks
MkDoc(pts, plys, srfs, vols) ==
    [points |-> Some([i \in 1..Len(pts) |-> pts[i].xyz]),
     point_names |-> Some([i \in 1..Len(pts) |-> pts[i].name]),
     point_md |-> Some([i \in 1..Len(pts) |-> pts[i].md]),
     polylines |-> plys, surfaces |-> srfs, volumes |-> vols]

BasePts ==
    << [xyz |-> <<0, 1, 3>>, name |-> << >>, md |-> NegInf],
       [xyz |-> <<2, 2, 0>>, name |-> <<"a">>, md |-> 3] >>

BasePly == With(EMPTY_PLY, [NAME |-> <<"a">>, POINTS |-> <<0, 1>>])

BaseSrf == With(EMPTY_SRF, [NAME |-> <<"b">>, POLYLINES |-> << <<"a">> >>])

BaseVol == With(EMPTY_VOL, [NAME |-> <<"a">>, SURFACES |-> << <<"b">> >>])

\* The documents: one section is varied over all sequences of its samples,
\* the others are absent or hold one fixed block.
Docs ==
    {MkDoc(pts, << >>, << >>, << >>) : pts \in SeqsOf(PointSamples, 1, MaxPts)}
    \cup {MkDoc(BasePts, plys, srfs, << >>) :
            plys \in SeqsOf(PlySamples, 1, MaxBlocks),
            srfs \in {<< >>, <<BaseSrf>>}}
    \cup {MkDoc(BasePts, plys, srfs, vols) :
            plys \in {<< >>, <<BasePly>>},
            srfs \in SeqsOf(SrfSamples, 1, MaxBlocks),
            vols \in {<< >>, <<BaseVol>>}}
    \cup {MkDoc(BasePts, plys, srfs, vols) :
            plys \in {<< >>, <<BasePly>>},
            srfs \in {<< >>, <<BaseSrf>>},
            vols \in SeqsOf(VolSamples, 1, MaxBlocks)}

\* the top_com arguments tried: none, and a one-word comment
TopComs == {<< >>, <<"comment">>}

\* the lines a hand-made file is put together from, one block kind at a time
RawLines(kind) ==
    { << >>,
      <<"#POINTS">>,
      <<"0", "0.0", "1.0", "0.5", "$NAME", "a">>,
      BlockHeader(kind),
      <<Dollar(ListKey(kind))>>,
      <<"$NAME">>,
      <<"0">>,
      <<"a">>,
      <<"#STOP">>,
      <<"#STOP", "x">> }

RawFiles == UNION {SeqsOf(RawLines(kind), 0, MaxRawLen) : kind \in Kinds}

InitGli ==
    /\ comp = "gli"
    /\ \/ gdoc \in Docs /\ gpc = "save" /\ gfile = << >>
       \/ gdoc = EMPTY_GLI /\ gpc = "open" /\ gfile \in RawFiles
    /\ gtop = << >>
    /\ gpos = 1
    /\ gline = << >>
    /\ gout = EMPTY_GLI
    /\ gcur = NoCur
    /\ gerr = << >>
    /\ Idle("gli")

NextGli ==
    \/ \E tc \in TopComs : GliSave(tc)
    \/ GliOpen
    \/ GliTopEof
    \/ GliTopBlank
    \/ GliTopPoints
    \/ \E kind \in Kinds : GliTopBlock(kind)
    \/ GliTopStop
    \/ GliTopUnknown
    \/ GliBlockTest
    \/ GliBlockBody

SpecGli == InitGli /\ [][NextGli]_vars

\* the reader runs on: every step the code can take is eventually taken
SpecGliFair == SpecGli /\ WF_vars(NextGli)

--------------------------------------------------------------------------
(* Claims about the geometry reader and writer *)

FromDoc == comp = "gli" /\ gdoc.points # None

\* a str that is one token: not empty, no whitespace
IsToken(str) == Len(str) = 1

StrKeysOf(kind) ==
    {k \in Range(KeyList(kind)) : TypeOfKey(kind, k) = "str"}

TokenBlock(kind, blk) ==
    /\ \A k \in StrKeysOf(kind) : blk[k] # None => IsToken(blk[k][1])
    /\ (kind # "ply" /\ blk[ListKey(kind)] # None) =>
            \A j \in 1..Len(blk[ListKey(kind)][1]) : IsToken(blk[ListKey(kind)][1][j])

\* every string of the document is one token; a point name may also be empty
TokenDoc(doc) ==
    /\ \A i \in 1..Len(doc.point_names[1]) : Len(doc.point_names[1][i]) <= 1
    /\ \A i \in 1..Len(doc.polylines) : TokenBlock("ply", doc.polylines[i])
    /\ \A i \in 1..Len(doc.surfaces) : TokenBlock("srf", doc.surfaces[i])
    /\ \A i \in 1..Len(doc.volumes) : TokenBlock("vol", doc.volumes[i])

\* the reader has read past the last line and goes round a block loop
ReaderSpins == gpc \in {"test", "body"} /\ gline = << >> /\ gpos > Len(gfile)

ReaderPastEnd ==
    /\ comp = "gli" /\ gpc \in {"top", "test", "body"}
    /\ gpos > Len(gfile) /\ ~StartsWith(gline, "#STOP")

\* C2: once the reader has read the last line of a file without reaching
\* #STOP, in whatever section, it ends by raising EOFError.
C2_EofRaisesError == [](ReaderPastEnd => <>(gpc = "EOFError"))

C3_Examines ==
    /\ comp = "gli" /\ gpc = "top" /\ gline # << >>
    /\ gline[1] \notin {"#POINTS", "#POLYLINE", "#SURFACE", "#VOLUME", "#STOP"}

\* C3 (as claimed): a non-blank top-level line that starts with no keyword
\* makes the reader fail with ValueError naming it, wherever it stands.
C3_UnknownLineRaises ==
    [][C3_Examines => (gpc' = "ValueError_unknown" /\ gerr' = gline)]_vars

\* C3 (amended): such a line makes the reader fail with ValueError naming
\* it when another line follows it in the file; when it is the last line of
\* the file the reader fails with EOFError instead.  Either way the failure
\* is final and no document is returned.
C3_UnknownLineRaisesUnlessLast ==
    /\ [][(C3_Examines /\ gpos <= Len(gfile)) =>
            (gpc' = "ValueError_unknown" /\ gerr' = gline)]_vars
    /\ [][(C3_Examines /\ gpos > Len(gfile)) => gpc' = "EOFError"]_vars
    /\ [][(gpc \in GliErrors) => (gpc' = gpc)]_vars

\* an unknown line in the middle of a file, after a #POINTS section, has
\* raised ValueError
C3_Witness ==
    /\ comp = "gli" /\ gpc = "ValueError_unknown" /\ gerr = <<"a">>
    /\ gpos = 4 /\ gpos <= Len(gfile) /\ gout.points # None

\* how many entries a field of the point set holds (none while it is unset)
LenOf(field) == IF field = None THEN 0 ELSE Len(field[1])

\* the records of a #POINTS section whose first record is line p of the
\* file: the lines from there on that start with a digit
RecordCount(f, p) ==
    CHOOSE n \in 0..Len(f) :
        /\ \A i \in 0..(n - 1) :
              p + i <= Len(f) /\ f[p + i] # << >> /\ DigitStart(f[p + i][1])
        /\ ~(p + n <= Len(f) /\ f[p + n] # << >> /\ DigitStart(f[p + n][1]))

\* what a record gives for its point, its name and its density
RecordXyz(ln) == [i \in 1..3 |-> ParseFloat(ln[i + 1])]

RecordName(ln) ==
    IF \E i \in 1..Len(ln) : ln[i] = "$NAME"
    THEN <<ln[(CHOOSE i \in 1..Len(ln) :
                  ln[i] = "$NAME" /\ \A j \in 1..(i - 1) : ln[j] # "$NAME") + 1]>>
    ELSE << >>

RecordMd(ln) ==
    IF \E i \in 1..Len(ln) : ln[i] = "$MD"
    THEN ParseFloat(ln[(CHOOSE i \in 1..Len(ln) :
                          ln[i] = "$MD" /\ \A j \in 1..(i - 1) : ln[j] # "$MD") + 1])
    ELSE NegInf

\* the reader takes the #POINTS branch and comes out of it without error
ReadsPointSection ==
    /\ comp = "gli" /\ gpc = "top" /\ gpc' = "top"
    /\ StartsWith(gline, "#POINTS")

\* C18: in every document load_ogs5gli returns, and in every one it is
\* building, the point array, the name array and the density array have the
\* same length, whatever the number and order of #POINTS sections; entry i
\* of each comes from record i of the section read last, with an empty
\* name and minus infinity where the record gave none.
C18_PointSetAligned ==
    /\ [](comp = "gli" /\ gpc \in {"top", "test", "body", "done"} =>
            /\ LenOf(gout.points) = LenOf(gout.point_names)
            /\ LenOf(gout.points) = LenOf(gout.point_md)
            /\ (gout.points = None) = (gout.point_names = None))
    /\ [][ReadsPointSection =>
            LET n == RecordCount(gfile, gpos)
            IN  /\ gout'.points = Some([i \in 1..n |-> RecordXyz(gfile[gpos + i - 1])])
                /\ gout'.point_names =
                      Some([i \in 1..n |-> RecordName(gfile[gpos + i - 1])])
                /\ gout'.point_md = Some([i \in 1..n |-> RecordMd(gfile[gpos + i - 1])])]_vars
    /\ [][(comp = "gli" /\ gpc \in {"top", "test", "body"} /\ ~ReadsPointSection) =>
            /\ gout'.points = gout.points
            /\ gout'.point_names = gout.point_names
            /\ gout'.point_md = gout.point_md]_vars

\* a file with two #POINTS sections has been loaded: the document holds
\* the one named point of the second section
C18_Witness ==
    /\ comp = "gli" /\ gpc = "done"
    /\ Len(gfile) = 4 /\ gfile[1] = <<"#POINTS">> /\ gfile[2] = <<"#POINTS">>
    /\ LenOf(gout.points) = 1
    /\ gout.point_names = Some(<< <<"a">> >>)
    /\ gout.point_md = Some(<<NegInf>>)

\* the reader is at the list sub-keyword of the block it reads ($POINTS of
\* a polyline, $POLYLINES of a surface, $SURFACES of a volume)
AtListKey ==
    /\ comp = "gli" /\ gpc = "body"
    /\ SubKeyOf(gcur.kind, gline) = ListKey(gcur.kind)

\* the place in the file of the line that ends the run of value lines which
\* starts at line p (one past the last line when the file ends the run)
RunEnd(kind, f, p) ==
    CHOOSE q \in p..(Len(f) + 1) :
        /\ \A i \in p..(q - 1) : RunContinues(kind, f[i])
        /\ q <= Len(f) => ~RunContinues(kind, f[q])

\* the run, read from the list sub-keyword, leaves the line that ended it
\* as the line to interpret next, with the items of the lines before it
RunEndKept(ends(_)) ==
    AtListKey =>
        LET q == RunEnd(gcur.kind, gfile, gpos)
        IN  (q <= Len(gfile) /\ ends(gfile[q])) =>
               /\ gline' = gfile[q] /\ gpos' = q + 1
               /\ gpc' = "test"
               /\ gcur'.blk[ListKey(gcur.kind)] =
                     Some([i \in 1..(q - gpos) |->
                              RunItem(gcur.kind, gfile[gpos + i - 1])])

\* a line that starts with a top-level keyword, or is a sub-keyword of the
\* section being read
StartsKeyOrIsSubKey(line) ==
    StartsWithGliKey(line) \/ SubKeyOf(gcur.kind, line) # ""

\* a line that is a top-level keyword, or a sub-keyword of the section
IsBareKey(line) == LineInStopKeys(gcur.kind, line)

\* C19: when the run of value lines of $POINTS, $POLYLINES or $SURFACES is
\* ended by a line that starts with a top-level keyword or is a sub-keyword
\* of the section, that line is not consumed: it is the next line
\* interpreted, and nothing of it is merged into the block.
C19_RunEndNotConsumed == [][RunEndKept(StartsKeyOrIsSubKey)]_vars

\* the same for an ending line that is a keyword and nothing else: this
\* much holds
C19_KeyLineNotConsumed == [][RunEndKept(IsBareKey)]_vars

\* C20: a file saved with a non-empty top comment is accepted by
\* load_ogs5gli, which returns what it returns for the file saved without
\* the comment (for a document of single tokens, the document itself).
C20_CommentAccepted ==
    (FromDoc /\ gtop # << >> /\ gpc \in GliTerminal) =>
        /\ gpc = "done"
        /\ TokenDoc(gdoc) => gout = gdoc

\* what the reader does with such a file: it fails on the comment line
C20_CommentRejected ==
    (FromDoc /\ gtop # << >> /\ gpc \in GliTerminal) =>
        /\ gpc = "ValueError_unknown" /\ gerr = gtop
        /\ gout = EMPTY_GLI

--------------------------------------------------------------------------
(* load_media_prop_dist *)

MPD_HEADER == "#MEDIUM_PROPERTIES_DISTRIBUTED"

\* the numbers a DATA section is written with, as text
ValText == <<"10", "20", "30", "40", "50">>

MpdNumToks == Range(Digits) \cup Range(ValText)

\* the number np.fromfile parses from a token
MpdNum(tok) ==
    IF tok \in Range(Digits) THEN IndexOf(Digits, tok) - 1
    ELSE 10 * IndexOf(ValText, tok)

\* line.split()[0][0] == "$"
IsDollarTok(tok) == tok \in {"$DATA", "$MSH_TYPE"}

\* line.split()[0][1:]
KeyOfTok(tok) == IF tok = "$DATA" THEN "DATA" ELSE "MSH_TYPE"

\* out[key] = value
Put(out, key, value) ==
    [k \in (DOMAIN out) \cup {key} |-> IF k = key THEN value ELSE out[k]]

\* all tokens of the lines p.. of the file, in order
RECURSIVE TokensFrom(_, _)
TokensFrom(f, p) == IF p > Len(f) THEN << >> ELSE f[p] \o TokensFrom(f, p + 1)

\* np.fromfile(mpd, sep=" "): the numbers up to the first token that is none
RECURSIVE NumPrefix(_, _)
NumPrefix(toks, i) ==
    IF i > Len(toks) \/ toks[i] \notin MpdNumToks THEN << >>
    ELSE <<MpdNum(toks[i])>> \o NumPrefix(toks, i + 1)

FromFile(f, p) == NumPrefix(TokensFrom(f, p), 1)

\* data.reshape((-1, 2))[:, c] for c = 0, 1 (here 1, 2)
Column(data, c) == [k \in 1..(Len(data) \div 2) |-> data[2 * (k - 1) + c]]

\* whether data_val[data_ids] raises IndexError (the ids written here are
\* never negative)
BadIndex(ids, n) == \E k \in 1..Len(ids) : ids[k] >= n

\* data_val[data_ids] (line 392): entry k is data_val[data_ids[k]]
TakeByIds(vals, ids) == [k \in 1..Len(ids) |-> vals[ids[k] + 1]]

MpdErrors == {"EOFError", "ValueError_corrupted", "ValueError", "IndexError"}

\* line 357 with lines 360-361: readline() returns ""
MpdEof ==
    /\ comp = "mpd" /\ mpc = "read"
    /\ mpos > Len(mfile)
    /\ mseen' = Append(mseen, mpos)
    /\ mpc' = "EOFError"
    /\ UNCHANGED <<comp, mfile, mpos, mfound, mout, mret, nonMpd>>

\* lines 364-365, and a line no branch matches
MpdSkip ==
    /\ comp = "mpd" /\ mpc = "read"
    /\ mpos <= Len(mfile)
    /\ \/ mfile[mpos] = << >>
       \/ /\ mfile[mpos] # << >>
          /\ mfile[mpos][1] # MPD_HEADER
          /\ ~IsDollarTok(mfile[mpos][1])
    /\ mseen' = Append(mseen, mpos)
    /\ mpos' = mpos + 1
    /\ UNCHANGED <<comp, mfile, mfound, mout, mpc, mret, nonMpd>>

\* (mutant) the header is accepted however often it occurs
MpdHeaderStep_NoCheck(found) == [pc |-> "read", found |-> TRUE]

\* lines 369-372
MpdHeaderStep(found) ==
    IF found THEN [pc |-> "ValueError_corrupted", found |-> found]
    ELSE [pc |-> "read", found |-> TRUE]

\* lines 368-374
MpdHeader ==
    /\ comp = "mpd" /\ mpc = "read"
    /\ mpos <= Len(mfile)
    /\ mfile[mpos] # << >> /\ mfile[mpos][1] = MPD_HEADER
    /\ mseen' = Append(mseen, mpos)
    /\ mpos' = mpos + 1
    /\ mpc' = MpdHeaderStep(mfound).pc
    /\ mfound' = MpdHeaderStep(mfound).found
    /\ UNCHANGED <<comp, mfile, mout, mret, nonMpd>>

\* lines 377-379 and 398-399: a key other than DATA takes the next line
MpdKeyOther ==
    /\ comp = "mpd" /\ mpc = "read"
    /\ mpos <= Len(mfile)
    /\ mfile[mpos] # << >> /\ mfile[mpos][1] # MPD_HEADER
    /\ IsDollarTok(mfile[mpos][1]) /\ KeyOfTok(mfile[mpos][1]) # "DATA"
    /\ mseen' = Append(mseen, mpos)
    /\ IF ~mfound
       THEN /\ mpc' = "ValueError_corrupted"
            /\ mpos' = mpos + 1
            /\ UNCHANGED mout
       ELSE /\ mout' = Put(mout, KeyOfTok(mfile[mpos][1]), Readline(mfile, mpos + 1))
            /\ mpos' = Advance(mfile, mpos + 1)
            /\ UNCHANGED mpc
    /\ UNCHANGED <<comp, mfile, mfound, mret, nonMpd>>

\* lines 377-396 and 401: the DATA key reads the rest of the file
MpdKeyData ==
    /\ comp = "mpd" /\ mpc = "read"
    /\ mpos <= Len(mfile)
    /\ mfile[mpos] # << >> /\ mfile[mpos][1] = "$DATA"
    /\ mseen' = Append(mseen, mpos)
    /\ mpos' = mpos + 1
    /\ LET data == FromFile(mfile, mpos + 1)
           ids == Column(data, 1)
           vals == Column(data, 2)
       IN  IF ~mfound
           THEN mpc' = "ValueError_corrupted" /\ UNCHANGED <<mout, mret>>
           ELSE IF Len(data) % 2 # 0
           THEN mpc' = "ValueError" /\ UNCHANGED <<mout, mret>>
           ELSE IF BadIndex(ids, Len(vals))
           THEN mpc' = "IndexError" /\ UNCHANGED <<mout, mret>>
           ELSE /\ mout' = Put(mout, "DATA", TakeByIds(vals, ids))
                /\ mret' = Some(mout')
                /\ mpc' = "done"
    /\ UNCHANGED <<comp, mfile, mfound, nonMpd>>

--------------------------------------------------------------------------
(* Inputs of the distributed-property model *)

MaxMpdPre == 4

MaxPairs == 3

\* the lines a file may begin with
PreLines == {<< >>, <<MPD_HEADER>>, <<"$MSH_TYPE">>, <<"a">>}

\* a $DATA section: pair k carries the id ids[k] and a value, either
\* 10 * k (numbered by position) or 10 * (id + 1) (numbered by element)
PairLines(ids, byId) ==
    [k \in 1..Len(ids) |->
        <<FmtInt(ids[k]), ValText[IF byId THEN ids[k] + 1 ELSE k]>>]

\* what may follow the pairs: nothing, one more number, a line of text
Trailers == {<< >>, <<<<"50">>>>, <<<<"a">>>>}

\* whether ids holds each of 0..N-1
IsPermutation(ids) ==
    \A j \in 0..(Len(ids) - 1) : \E k \in 1..Len(ids) : ids[k] = j

DataTails ==
    {<<<<"$DATA">>>> \o PairLines(ids, FALSE) \o tr :
        ids \in SeqsOf(0..MaxPairs, 0, MaxPairs), tr \in Trailers}
    \cup
    {<<<<"$DATA">>>> \o PairLines(ids, TRUE) :
        ids \in {i \in SeqsOf(0..MaxPairs, 0, MaxPairs) : IsPermutation(i)}}

\* the tails put behind every beginning
FewTails ==
    { << >>,
      <<<<"$DATA">>>>,
      <<<<"$DATA">>>> \o PairLines(<<1, 0>>, FALSE),
      <<<<"$DATA">>>> \o PairLines(<<0>>, FALSE) \o <<<<"50">>>> }

\* every beginning with a few tails, and every tail behind the header or
\* behind nothing
MpdFiles ==
    {pre \o tail : pre \in SeqsOf(PreLines, 0, MaxMpdPre), tail \in FewTails}
    \cup
    {pre \o tail : pre \in {<< >>, <<<<MPD_HEADER>>>>}, tail \in DataTails}

InitMpd ==
    /\ comp = "mpd"
    /\ mfile \in MpdFiles
    /\ mpos = 1 /\ mfound = FALSE /\ mout = << >>
    /\ mpc = "read" /\ mseen = << >> /\ mret = None
    /\ Idle("mpd")

NextMpd ==
    \/ MpdEof
    \/ MpdSkip
    \/ MpdHeader
    \/ MpdKeyOther
    \/ MpdKeyData

SpecMpd == InitMpd /\ [][NextMpd]_vars

--------------------------------------------------------------------------
(* Claims about the distributed-property reader *)

\* the line numbers the loop has read that lie in the file
SeenLines == {mseen[i] : i \in 1..Len(mseen)} \cap (1..Len(mfile))

IsHeaderLine(l) == l # << >> /\ l[1] = MPD_HEADER

IsKeyLine(l) == l # << >> /\ l[1] # MPD_HEADER /\ IsDollarTok(l[1])

HeadersSeen == {n \in SeenLines : IsHeaderLine(mfile[n])}

KeysSeen == {n \in SeenLines : IsKeyLine(mfile[n])}

\* the line the loop read last
LastSeen == mseen[Len(mseen)]

\* the pairs of the DATA section the reader has reached
DataPairs == FromFile(mfile, LastSeen + 1)

\* C4: when the ids of the DATA pairs are a permutation of 0..N-1, the
\* returned array has length N and holds value_k at position id_k, for
\* every pair k.
C4_PositionIsId ==
    (comp = "mpd" /\ mpc = "done") =>
        LET ids == Column(DataPairs, 1)
            vals == Column(DataPairs, 2)
        IN  IsPermutation(ids) =>
                /\ Len(mout.DATA) = Len(ids)
                /\ \A k \in 1..Len(ids) : mout.DATA[ids[k] + 1] = vals[k]

--------------------------------------------------------------------------
(* Arrays, number text and the table reader of the flat-array file classes *)
(* (RFR, PCT).  An array is its shape and its values in row-major order.   *)
(* A file on disk is the sequence of its lines, each line its tokens.      *)

Array(shape, flat) == [shape |-> shape, flat |-> flat]

\* a.ndim
Ndim(a) == Len(a.shape)

\* np.savetxt's "%.18e" of the floats 0.0, 0.5, 1.0, 1.5
SciText ==
    <<"0.000000000000000000e+00", "5.000000000000000000e-01",
      "1.000000000000000000e+00", "1.500000000000000000e+00">>

FmtSci(x) == SciText[x + 1]

\* the tokens float() accepts, and their value
NumToks == FloatToks \cup Range(SciText)

ParseNum(tok) ==
    IF tok \in Range(SciText) THEN IndexOf(SciText, tok) - 1 ELSE ParseFloat(tok)

\* a token that begins with "#": np.loadtxt drops the rest of the line
IsCommentTok(tok) == tok \in {"#0#0#0#1#100000#0#4.2.13", "#####"}

RECURSIVE StripComment(_)
StripComment(line) ==
    IF line = << >> \/ IsCommentTok(Head(line)) THEN << >>
    ELSE <<Head(line)>> \o StripComment(Tail(line))

\* the lines of a table that hold something, without their comments
RECURSIVE TableRows(_)
TableRows(lines) ==
    IF lines = << >> THEN << >>
    ELSE (IF StripComment(Head(lines)) = << >> THEN << >>
          ELSE <<StripComment(Head(lines))>>) \o TableRows(Tail(lines))

RECURSIVE Flatten(_)
Flatten(ss) == IF ss = << >> THEN << >> ELSE Head(ss) \o Flatten(Tail(ss))

\* np.loadtxt(path, skiprows=n): the table as floats, axes of length one
\* squeezed away (ndmin=0)
LoadTxt(lines, skiprows) ==
    LET rows == TableRows(SubSeq(lines, skiprows + 1, Len(lines)))
        n == Len(rows)
        c == IF n = 0 THEN 0 ELSE Len(rows[1])
        flat == [i \in 1..(n * c) |->
                    ParseNum(rows[((i - 1) \div c) + 1][((i - 1) % c) + 1])]
    IN  IF \E i \in 1..n : \E j \in 1..Len(rows[i]) : rows[i][j] \notin NumToks
        THEN [exc |-> "ValueError", arr |-> Array(<<0>>, << >>)]
        ELSE IF \E i \in 1..n : Len(rows[i]) # c
        THEN [exc |-> "ValueError", arr |-> Array(<<0>>, << >>)]
        ELSE IF n = 0 THEN [exc |-> "none", arr |-> Array(<<0>>, << >>)]
        ELSE IF n = 1 /\ c = 1 THEN [exc |-> "none", arr |-> Array(<< >>, flat)]
        ELSE IF n = 1 THEN [exc |-> "none", arr |-> Array(<<c>>, flat)]
        ELSE IF c = 1 THEN [exc |-> "none", arr |-> Array(<<n>>, flat)]
        ELSE [exc |-> "none", arr |-> Array(<<n, c>>, flat)]

\* a[:, j] of a 2-D array (j counted from 0)
ColumnOf(a, j) ==
    Array(<<a.shape[1]>>, [i \in 1..a.shape[1] |-> a.flat[(i - 1) * a.shape[2] + j + 1]])

\* os.path.join(root, name + ext)
PathOf(root, name, ext) == <<root, name, ext>>

\* the directory part of a path
DirOf(path) == path[1]

Call(op, arg, ret, exc) == [op |-> op, arg |-> arg, ret |-> ret, exc |-> exc]

\* repr of a bool
PyBool(b) == IF b THEN "True" ELSE "False"

--------------------------------------------------------------------------
(* RFR, the restart file class.  A str of line1_4 is the sequence of the   *)
(* lines it prints as: one, unless it holds a line break.                  *)

\* lines 112-115
is_empty(a) == Len(a.shape) > 0 /\ a.shape[1] > 0

\* lines 122-141
RfrCheckResult(a) == Ndim(a) = 1

\* lines 153-157: what save prints (data is 1-D here)
RfrFileLines(l14, a) ==
    Flatten(l14) \o [i \in 1..a.shape[1] |-> <<FmtInt(i - 1), FmtFloat(a.flat[i])>>]

RfrIsEmpty ==
    /\ comp = "rfr"
    /\ last' = Call("is_empty", None, PyBool(is_empty(self_data)), "none")
    /\ UNCHANGED <<comp, fcls, self_task_root, self_task_id, self_file_ext,
                   self_file_name, self_line1_4, self_s_flag, self_data, disk,
                   dirs, saved, nonFile>>

RfrCheck ==
    /\ comp = "rfr"
    /\ last' = Call("check", None, PyBool(RfrCheckResult(self_data)), "none")
    /\ UNCHANGED <<comp, fcls, self_task_root, self_task_id, self_file_ext,
                   self_file_name, self_line1_4, self_s_flag, self_data, disk,
                   dirs, saved, nonFile>>

\* lines 143-157
RfrSave(path) ==
    /\ comp = "rfr"
    /\ IF Ndim(self_data) = 0
       THEN /\ last' = Call("save", path, "None", "IndexError")
            /\ UNCHANGED <<disk, saved>>
       ELSE IF self_data.shape[1] < 1
       THEN /\ last' = Call("save", path, "None", "none")
            /\ UNCHANGED <<disk, saved>>
       ELSE IF DirOf(path) \notin dirs
       THEN /\ last' = Call("save", path, "None", "IOError")
            /\ UNCHANGED <<disk, saved>>
       ELSE /\ disk' = Put(disk, path, RfrFileLines(self_line1_4, self_data))
            /\ saved' = Some([path |-> path, line1_4 |-> self_line1_4,
                              data |-> self_data])
            /\ last' = Call("save", path, "None", "none")
    /\ UNCHANGED <<comp, fcls, self_task_root, self_task_id, self_file_ext,
                   self_file_name, self_line1_4, self_s_flag, self_data, dirs,
                   nonFile>>

\* line 173: np.loadtxt(...)[:, 1]
SecondColumn(t) ==
    IF t.exc # "none" THEN [exc |-> t.exc, arr |-> t.arr]
    ELSE IF Ndim(t.arr) < 2 THEN [exc |-> "IndexError", arr |-> t.arr]
    ELSE [exc |-> "none", arr |-> ColumnOf(t.arr, 1)]

\* lines 159-173
RfrReadFile(path) ==
    /\ comp = "rfr"
    /\ IF path \notin DOMAIN disk
       THEN /\ last' = Call("read_file", path, "None", "IOError")
            /\ UNCHANGED <<self_line1_4, self_data>>
       ELSE IF Len(disk[path]) < 4
       THEN /\ last' = Call("read_file", path, "None", "IndexError")
            /\ UNCHANGED <<self_line1_4, self_data>>
       ELSE LET col == SecondColumn(LoadTxt(disk[path], 4))
            IN  /\ self_line1_4' = [i \in 1..4 |-> <<disk[path][i]>>]
                /\ last' = Call("read_file", path, "None", col.exc)
                /\ IF col.exc = "none" THEN self_data' = col.arr
                   ELSE UNCHANGED self_data
    /\ UNCHANGED <<comp, fcls, self_task_root, self_task_id, self_file_ext,
                   self_file_name, self_s_flag, disk, dirs, saved, nonFile>>

\* an assignment to self.data
RfrSetData(a) ==
    /\ comp = "rfr"
    /\ self_data' = a
    /\ last' = Call("set_data", None, "None", "none")
    /\ UNCHANGED <<comp, fcls, self_task_root, self_task_id, self_file_ext,
                   self_file_name, self_line1_4, self_s_flag, disk, dirs, saved,
                   nonFile>>

\* an assignment to self.line1_4
RfrSetLine1_4(h) ==
    /\ comp = "rfr"
    /\ self_line1_4' = h
    /\ last' = Call("set_line1_4", None, "None", "none")
    /\ UNCHANGED <<comp, fcls, self_task_root, self_task_id, self_file_ext,
                   self_file_name, self_s_flag, self_data, disk, dirs, saved,
                   nonFile>>

--------------------------------------------------------------------------
(* Inputs of the restart-file model *)

\* most node values of a restart array
MaxVals == 3

\* a 1-D array of n floats, counting up from `first` in halves
Ramp(n, first) == Array(<<n>>, [i \in 1..n |-> (first + i - 1) % 4])

\* the arrays self.data is given: 1-D of 0..MaxVals values, and a scalar
RfrArrays ==
    {Ramp(n, 0) : n \in 0..MaxVals} \cup {Ramp(MaxVals, 2)}
    \cup {Array(<< >>, <<1>>)}

\* the default of line1_4 (lines 94-101)
DefaultLine1_4 ==
    << <<<<"#0#0#0#1#100000#0#4.2.13", "#####">>>>,
       <<<<"1", "1", "4">>>>,
       <<<<"1", "1">>>>,
       <<<<"HEAD,", "m">>>> >>

\* headers: the default, another of four lines, one of two lines only, and
\* one whose second str holds a line break
Line1_4Samples ==
    { DefaultLine1_4,
      << <<<<"a">>>>, <<<< >>>>, <<<<"1.5">>>>, <<<<"d">>>> >>,
      << <<<<"a">>>>, <<<<"b">>>> >>,
      << <<<<"a">>>>, <<<<"b">>, <<"0", "1.0">>>>, <<<<"c">>>>, <<<<"d">>>> >> }

\* the paths save and read_file are called with
RfrPaths ==
    { PathOf("ogs5model", "model", ".rfr"),
      PathOf("ogs5model", "other", ".rfr"),
      PathOf("nowhere", "model", ".rfr") }

InitRfr ==
    /\ comp = "rfr"
    /\ fcls = "RFR"
    /\ self_task_root = "ogs5model" /\ self_task_id = "model"
    /\ self_file_ext = ".rfr" /\ self_file_name = "model"
    /\ self_line1_4 \in Line1_4Samples
    /\ self_s_flag = 0
    /\ self_data \in RfrArrays
    /\ disk = << >> /\ dirs = {"ogs5model"}
    /\ last = Call("none", None, "None", "none")
    /\ saved = None
    /\ Idle("rfr")

NextRfr ==
    \/ RfrIsEmpty
    \/ RfrCheck
    \/ \E path \in RfrPaths : RfrSave(path)
    \/ \E path \in RfrPaths : RfrReadFile(path)
    \/ \E a \in RfrArrays : RfrSetData(a)
    \/ \E h \in Line1_4Samples : RfrSetLine1_4(h)

SpecRfr == InitRfr /\ [][NextRfr]_vars

--------------------------------------------------------------------------
(* Claims about the restart file class *)

\* four strs, each one line
IsFourLines(h) == Len(h) = 4 /\ \A i \in 1..4 : Len(h[i]) = 1

\* read_file has just been called on the path of the last save, which wrote
\* a four-line header and a 1-D array of at least one value
ReadBack ==
    /\ comp = "rfr" /\ last.op = "read_file"
    /\ saved # None /\ last.arg = saved[1].path
    /\ IsFourLines(saved[1].line1_4)
    /\ Ndim(saved[1].data) = 1 /\ saved[1].data.shape[1] >= 1

\* C6: save(path) followed by read_file(path), on any object, completes
\* without error and leaves the object with the header and the array saved.
C6_SaveThenRead ==
    ReadBack =>
        /\ last.exc = "none"
        /\ self_line1_4 = saved[1].line1_4
        /\ self_data = saved[1].data

\* C7: is_empty is true for a 1-D array of no values and false for one of
\* at least one value.
C7_IsEmpty ==
    (comp = "rfr" /\ last.op = "is_empty" /\ Ndim(self_data) = 1) =>
        (last.ret = "True" <=> self_data.shape[1] = 0)

--------------------------------------------------------------------------
(* PCT, the particle file class *)

\* the number of columns check asks for (line 49)
PctCols == 10

\* np.zeros((0, 10))
EmptyTable == Array(<<0, PctCols>>, << >>)

\* (mutant) only the number of dimensions is looked at
PctCheckResult_AnyCols(a) == Ndim(a) = 2

\* lines 45-53
PctCheckResult(a) ==
    IF Ndim(a) # 2 THEN FALSE
    ELSE IF a.shape[2] # PctCols THEN FALSE
    ELSE TRUE

\* np.savetxt(fout, data): a row per line, a 1-D array as one column
SaveTxtLines(a) ==
    IF Ndim(a) = 1 THEN [i \in 1..a.shape[1] |-> <<FmtSci(a.flat[i])>>]
    ELSE [i \in 1..a.shape[1] |->
            [j \in 1..a.shape[2] |-> FmtSci(a.flat[(i - 1) * a.shape[2] + j])]]

\* lines 70-74: how save(path) ends and what it writes
PctSaveResult(path, flag, a, ds) ==
    IF Ndim(a) = 0 THEN [exc |-> "IndexError", wrote |-> FALSE, lines |-> << >>]
    ELSE IF a.shape[1] < 1 THEN [exc |-> "none", wrote |-> FALSE, lines |-> << >>]
    ELSE IF DirOf(path) \notin ds
    THEN [exc |-> "IOError", wrote |-> FALSE, lines |-> << >>]
    ELSE [exc |-> "none", wrote |-> TRUE,
          lines |-> <<<<FmtInt(flag)>>, <<FmtInt(a.shape[1])>>>> \o SaveTxtLines(a)]

PctCheck ==
    /\ comp = "pct"
    /\ last' = Call("check", None, PyBool(PctCheckResult(self_data)), "none")
    /\ UNCHANGED <<comp, fcls, self_task_root, self_task_id, self_file_ext,
                   self_file_name, self_line1_4, self_s_flag, self_data, disk,
                   dirs, saved, nonFile>>

\* lines 55-59
PctReset ==
    /\ comp = "pct"
    /\ self_data' = EmptyTable
    /\ last' = Call("reset", None, "None", "none")
    /\ UNCHANGED <<comp, fcls, self_task_root, self_task_id, self_file_ext,
                   self_file_name, self_line1_4, self_s_flag, disk, dirs, saved,
                   nonFile>>

\* lines 61-74
PctSave(path) ==
    /\ comp = "pct"
    /\ LET r == PctSaveResult(path, self_s_flag, self_data, dirs)
       IN  /\ last' = Call("save", path, "None", r.exc)
           /\ IF r.wrote
              THEN /\ disk' = Put(disk, path, r.lines)
                   /\ saved' = Some([path |-> path, s_flag |-> self_s_flag,
                                     data |-> self_data])
              ELSE UNCHANGED <<disk, saved>>
    /\ UNCHANGED <<comp, fcls, self_task_root, self_task_id, self_file_ext,
                   self_file_name, self_line1_4, self_s_flag, self_data, dirs,
                   nonFile>>

\* lines 76-84
PctReadFile(path) ==
    /\ comp = "pct"
    /\ IF path \notin DOMAIN disk
       THEN /\ last' = Call("read_file", path, "None", "IOError")
            /\ UNCHANGED <<self_s_flag, self_data>>
       ELSE IF Len(Readline(disk[path], 1)) # 1
               \/ Readline(disk[path], 1)[1] \notin IntToks
       THEN /\ last' = Call("read_file", path, "None", "ValueError")
            /\ UNCHANGED <<self_s_flag, self_data>>
       ELSE LET t == LoadTxt(disk[path], 2)
            IN  /\ self_s_flag' = ParseInt(disk[path][1][1])
                /\ last' = Call("read_file", path, "None", t.exc)
                /\ IF t.exc = "none" THEN self_data' = t.arr
                   ELSE UNCHANGED self_data
    /\ UNCHANGED <<comp, fcls, self_task_root, self_task_id, self_file_ext,
                   self_file_name, self_line1_4, disk, dirs, saved, nonFile>>

\* an assignment to self.data
PctSetData(a) ==
    /\ comp = "pct"
    /\ self_data' = a
    /\ last' = Call("set_data", None, "None", "none")
    /\ UNCHANGED <<comp, fcls, self_task_root, self_task_id, self_file_ext,
                   self_file_name, self_line1_4, self_s_flag, disk, dirs, saved,
                   nonFile>>

--------------------------------------------------------------------------
(* Inputs of the particle-file model *)

\* most rows of a particle table
MaxRows == 2

\* an n x c table, cell (i, j) holding (i + j) % 4 halves
Table(n, c) ==
    Array(<<n, c>>, [k \in 1..(n * c) |-> (((k - 1) \div c) + ((k - 1) % c)) % 4])

\* the arrays self.data is given: tables of 9, 10 and 11 columns, 1-D arrays
\* and a scalar
PctArrays ==
    {Table(n, c) : n \in 0..MaxRows, c \in {PctCols - 1, PctCols, PctCols + 1}}
    \cup {Ramp(0, 0), Ramp(2, 1), Array(<< >>, <<1>>)}

PctPaths ==
    { PathOf("cwd", "ogs", ".pct"), PathOf("nowhere", "ogs", ".pct") }

InitPct ==
    /\ comp = "pct"
    /\ fcls = "PCT"
    /\ self_task_root = "cwd" /\ self_task_id = "ogs"
    /\ self_file_ext = ".pct" /\ self_file_name = ""
    /\ self_line1_4 = << >>
    /\ self_s_flag \in {0, 1}
    /\ self_data \in PctArrays
    /\ disk = << >> /\ dirs = {"cwd"}
    /\ last = Call("none", None, "None", "none")
    /\ saved = None
    /\ Idle("pct")

NextPct ==
    \/ PctCheck
    \/ PctReset
    \/ \E path \in PctPaths : PctSave(path)
    \/ \E path \in PctPaths : PctReadFile(path)
    \/ \E a \in PctArrays : PctSetData(a)

SpecPct == InitPct /\ [][NextPct]_vars

--------------------------------------------------------------------------
(* Claims about the particle file class *)

\* C8: check never raises and returns true exactly when the array is 2-D
\* with 10 columns; reset leaves a table of no rows, whatever the array was,
\* and a check that follows it returns true.
C8_CheckShape ==
    /\ [](comp = "pct" =>
            /\ last.op = "check" =>
                  /\ last.exc = "none"
                  /\ last.ret = "True" <=>
                        (Ndim(self_data) = 2 /\ self_data.shape[2] = 10)
            /\ last.op = "reset" =>
                  /\ last.exc = "none"
                  /\ self_data.shape = <<0, 10>>)
    /\ [][(comp = "pct" /\ last.op = "reset" /\ last'.op = "check")
            => last'.ret = "True"]_vars

\* check has answered true for the table of no rows and ten columns
C8_Witness ==
    /\ comp = "pct" /\ last.op = "check" /\ last.ret = "True"
    /\ self_data.shape = <<0, 10>>

\* save is called on an array of no rows (RFR: of no values)
EmptySave ==
    /\ comp \in {"rfr", "pct"}
    /\ Ndim(self_data) >= 1 /\ self_data.shape[1] = 0
    /\ last'.op = "save"

\* the call ends without error and leaves the disk and the object as they were
NothingWritten ==
    /\ last'.exc = "none"
    /\ UNCHANGED <<disk, dirs, saved, self_data, self_s_flag, self_line1_4,
                   self_task_root, self_task_id, self_file_ext, self_file_name>>

\* a table R was saved at a path, the object was reset and saved at the same
\* path again
EmptySavedOver ==
    /\ comp = "pct" /\ last.op = "save" /\ last.exc = "none"
    /\ self_data = EmptyTable
    /\ saved # None /\ last.arg = saved[1].path
    /\ Ndim(saved[1].data) = 2

\* read_file is called on that path
ReadAfterEmptySave ==
    /\ EmptySavedOver
    /\ last'.op = "read_file" /\ last'.arg = last.arg

\* C22: save on an array of no rows writes nothing: the file at the path is
\* neither made nor cut short and the object stays as it is; so after save
\* of rows R, reset, save and read_file on one path the object holds the
\* rows R again.
C22_EmptySaveKeepsRows ==
    [][/\ EmptySave => NothingWritten
       /\ ReadAfterEmptySave =>
             /\ last'.exc = "none"
             /\ self_data' = saved[1].data]_vars

\* the part on save alone, which holds for both classes
C22_EmptySaveNoWrite == [][EmptySave => NothingWritten]_vars

\* what read_file gives back at the end of the sequence: the flag and the
\* values of R in their order, as the table R when R has two rows or more
C22_ValuesBack ==
    [][ReadAfterEmptySave =>
          /\ last'.exc = "none"
          /\ self_s_flag' = saved[1].s_flag
          /\ self_data'.flat = saved[1].data.flat
          /\ saved[1].data.shape[1] >= 2 => self_data' = saved[1].data
          /\ saved[1].data.shape[1] = 1 =>
                self_data'.shape = <<saved[1].data.shape[2]>>]_vars

\* a table of one row was saved, the object reset and saved again, and the
\* file still holds the three lines of the first save
C22_FileKept ==
    /\ EmptySavedOver
    /\ saved[1].data.shape = <<1, PctCols>>
    /\ Len(disk[last.arg]) = 3

\* read_file has just been called on the path of the last save, which wrote
\* a table of ten columns
PctReadBack ==
    /\ comp = "pct" /\ last.op = "read_file"
    /\ saved # None /\ last.arg = saved[1].path
    /\ Ndim(saved[1].data) = 2
    /\ saved[1].data.shape[1] >= 1 /\ saved[1].data.shape[2] = PctCols

\* C23: save(path) of an N x 10 table, N >= 1, followed by read_file(path)
\* leaves the object with the flag saved and an N x 10 table of the same rows
\* in the same order, for which check returns true.
C23_TableRoundTrip ==
    PctReadBack =>
        /\ last.exc = "none"
        /\ self_s_flag = saved[1].s_flag
        /\ self_data = saved[1].data
        /\ PctCheckResult(self_data)

\* what holds of the round trip: the flag and the values come back in their
\* order; the table comes back as saved when it has two rows or more, and
\* as a 1-D array of ten values, which check turns down, when it has one
C23_ValuesRoundTrip ==
    PctReadBack =>
        /\ last.exc = "none"
        /\ self_s_flag = saved[1].s_flag
        /\ self_data.flat = saved[1].data.flat
        /\ saved[1].data.shape[1] >= 2 =>
              (self_data = saved[1].data /\ PctCheckResult(self_data))
        /\ saved[1].data.shape[1] = 1 =>
              (self_data.shape = <<PctCols>> /\ ~PctCheckResult(self_data))

\* a table of one row was saved with flag 1 and read back
C23_OneRowSqueezed ==
    /\ PctReadBack /\ saved[1].s_flag = 1
    /\ saved[1].data.shape = <<1, PctCols>>
    /\ self_data.shape = <<PctCols>>

\* a table of two rows was saved and read back as it was saved
C23_TwoRowsBack ==
    /\ PctReadBack
    /\ saved[1].data.shape = <<2, PctCols>>
    /\ self_data = saved[1].data

--------------------------------------------------------------------------
(* Where the file objects are persisted *)

\* (mutant) the extension is left out of the path
RfrPath_NoExt(root, name, ext) == PathOf(root, name, "")

\* RFR.file_path, ic/core.py lines 117-120
RfrPath(root, name, ext) == PathOf(root, name, ext)

\* the f_path of PCT.write_file, pct/core.py line 94
PctPath(root, id, ext) == PathOf(root, id, ext)

\* an assignment to self.task_root
SetTaskRoot(root) ==
    /\ comp = "path"
    /\ self_task_root' = root
    /\ last' = Call("set_task_root", None, "None", "none")
    /\ UNCHANGED <<comp, fcls, self_task_id, self_file_ext, self_file_name,
                   self_line1_4, self_s_flag, self_data, disk, dirs, saved,
                   nonFile>>

\* an assignment to self.task_id
SetTaskId(id) ==
    /\ comp = "path"
    /\ self_task_id' = id
    /\ last' = Call("set_task_id", None, "None", "none")
    /\ UNCHANGED <<comp, fcls, self_task_root, self_file_ext, self_file_name,
                   self_line1_4, self_s_flag, self_data, disk, dirs, saved,
                   nonFile>>

\* an assignment to self.file_ext (RFR) or self.f_type (PCT)
SetFileExt(ext) ==
    /\ comp = "path"
    /\ self_file_ext' = ext
    /\ last' = Call("set_file_ext", None, "None", "none")
    /\ UNCHANGED <<comp, fcls, self_task_root, self_task_id, self_file_name,
                   self_line1_4, self_s_flag, self_data, disk, dirs, saved,
                   nonFile>>

\* an assignment to self.file_name of an RFR object
SetFileName(name) ==
    /\ comp = "path" /\ fcls = "RFR"
    /\ self_file_name' = name
    /\ last' = Call("set_file_name", None, "None", "none")
    /\ UNCHANGED <<comp, fcls, self_task_root, self_task_id, self_file_ext,
                   self_line1_4, self_s_flag, self_data, disk, dirs, saved,
                   nonFile>>

\* a read of the property RFR.file_path
RfrFilePath ==
    /\ comp = "path" /\ fcls = "RFR"
    /\ last' = Call("file_path", None,
                    RfrPath(self_task_root, self_file_name, self_file_ext), "none")
    /\ UNCHANGED <<comp, fcls, self_task_root, self_task_id, self_file_ext,
                   self_file_name, self_line1_4, self_s_flag, self_data, disk,
                   dirs, saved, nonFile>>

\* pct/core.py lines 86-96
PctWriteFile ==
    /\ comp = "path" /\ fcls = "PCT"
    /\ dirs' = dirs \cup {self_task_root}
    /\ LET f_path == PctPath(self_task_root, self_task_id, self_file_ext)
           r == PctSaveResult(f_path, self_s_flag, self_data, dirs')
       IN  /\ last' = Call("write_file", f_path, "None", r.exc)
           /\ IF r.wrote
              THEN /\ disk' = Put(disk, f_path, r.lines)
                   /\ saved' = Some([path |-> f_path, s_flag |-> self_s_flag,
                                     data |-> self_data])
              ELSE UNCHANGED <<disk, saved>>
    /\ UNCHANGED <<comp, fcls, self_task_root, self_task_id, self_file_ext,
                   self_file_name, self_line1_4, self_s_flag, self_data, nonFile>>

TaskRoots == {"ogs5model", "run2"}

TaskIds == {"model", "ogs"}

FileExts == {".rfr", ".pct"}

FileNames == {"model", "restart"}

\* RFR.__init__ (ic/core.py lines 80-110) with file_name given or left None
InitPathRfr ==
    /\ fcls = "RFR"
    /\ self_task_root \in TaskRoots
    /\ self_task_id \in TaskIds
    /\ self_file_ext = ".rfr"
    /\ self_file_name \in {self_task_id} \cup FileNames
    /\ self_line1_4 = DefaultLine1_4
    /\ self_s_flag = 0
    /\ self_data = Ramp(2, 0)

\* PCT.__init__ (pct/core.py lines 16-28)
InitPathPct ==
    /\ fcls = "PCT"
    /\ self_task_root \in TaskRoots
    /\ self_task_id \in TaskIds
    /\ self_file_ext = ".pct"
    /\ self_file_name = ""
    /\ self_line1_4 = << >>
    /\ self_s_flag = 1
    /\ self_data \in {EmptyTable, Table(1, PctCols)}

InitPath ==
    /\ comp = "path"
    /\ InitPathRfr \/ InitPathPct
    /\ disk = << >> /\ dirs = {}
    /\ last = Call("none", None, "None", "none")
    /\ saved = None
    /\ Idle("path")

NextPath ==
    \/ \E root \in TaskRoots : SetTaskRoot(root)
    \/ \E id \in TaskIds : SetTaskId(id)
    \/ \E ext \in FileExts : SetFileExt(ext)
    \/ \E name \in FileNames : SetFileName(name)
    \/ RfrFilePath
    \/ PctWriteFile

SpecPath == InitPath /\ [][NextPath]_vars

--------------------------------------------------------------------------
(* Claims about the path convention *)

\* the path the object has just named (RFR) or written to (PCT)
PersistedAt ==
    IF last.op = "file_path" THEN last.ret ELSE last.arg

PathAsked == comp = "path" /\ last.op \in {"file_path", "write_file"}

--------------------------------------------------------------------------
(* download_ogs, the downloader of the executable.  A URL is its text      *)
(* before the archive suffix and the suffix; an archive entry is the       *)
(* components of its name and whether it is a directory.                   *)

\* lines 57-84
URLS ==
    [v \in {"5.7", "5.8"} |->
        IF v = "5.7"
        THEN [y \in {"Linux", "Windows", "Darwin"} |->
                CASE y = "Linux" ->
                        <<"binaries/ogs5/ogs-5.7.0-Linux-2.6.32-573.8.1.el6.x86_64-x64", ".tar.gz">>
                  [] y = "Windows" ->
                        <<"binaries/ogs5/ogs-5.7.0-Windows-6.1.7601-x64", ".zip">>
                  [] y = "Darwin" ->
                        <<"binaries/ogs5/ogs-5.7.0-Darwin-15.2.0-x64", ".tar.gz">>]
        ELSE [y \in {"Linux", "Windows"} |->
                CASE y = "Linux" ->
                        <<"binaries/ogs5/ogs-5.8-Linux-2.6.32-754.3.5.el6.x86_64-x64", ".tar.gz">>
                  [] y = "Windows" ->
                        <<"binaries/ogs5/ogs-5.8-Windows-x64", ".zip">>]]

\* (mutant) a pair without entry falls back to the first entry of the table
Lookup_Fallback(version, system) ==
    IF version \in DOMAIN URLS /\ system \in DOMAIN URLS[version]
    THEN [exc |-> "none", url |-> Some(URLS[version][system])]
    ELSE [exc |-> "none", url |-> Some(URLS["5.7"]["Linux"])]

\* line 118: URLS[version][system]
Lookup(version, system) ==
    IF version \in DOMAIN URLS /\ system \in DOMAIN URLS[version]
    THEN [exc |-> "none", url |-> Some(URLS[version][system])]
    ELSE [exc |-> "KeyError", url |-> None]

\* line 119
ExtOf(url) == IF url[2] = ".tar.gz" THEN ".tar.gz" ELSE ".zip"

\* line 121
DefaultName(system) == IF system = "Windows" THEN "ogs.exe" ELSE "ogs"

\* os.path.basename(file)
Basename(entry) == entry.name[Len(entry.name)]

\* getnames() of a tar archive gives a directory by its path; namelist() of
\* a zip archive gives it with a trailing "/", so its base name is empty
Listing(ext, entries) ==
    [i \in 1..Len(entries) |->
        IF ext = ".zip" /\ entries[i].dir
        THEN [entries[i] EXCEPT !.name = Append(@, "")]
        ELSE entries[i]]

\* str.startswith("ogs") on the base names that occur
StartsWithOgs(base) == base \in {"ogs", "ogs_fem", "ogs-5.7.0"}

Event(what, arg) == <<what, arg>>

\* lines 114-117
DlBegin ==
    /\ comp = "dl" /\ dl_pc = "begin"
    /\ dl_system' = IF dl_system = None THEN Some(dl_host) ELSE dl_system
    /\ IF dl_destdir THEN UNCHANGED <<dl_destdir, dl_log>>
       ELSE /\ dl_destdir' = TRUE
            /\ dl_log' = Append(dl_log, Event("makedirs", "path"))
    /\ dl_pc' = "lookup"
    /\ UNCHANGED <<comp, dl_version, dl_name, dl_host, dl_url, dl_ext, dl_names,
                   dl_i, dl_found, dl_exc, dl_ret, dl_destfile, dl_tmpdir,
                   dl_tmpfiles, dl_zopen, nonDl>>

\* lines 118-122
DlLookup ==
    /\ comp = "dl" /\ dl_pc = "lookup"
    /\ LET r == Lookup(dl_version, dl_system[1])
       IN  IF r.exc # "none"
           THEN /\ dl_exc' = r.exc
                /\ dl_pc' = "raised"
                /\ UNCHANGED <<dl_url, dl_ext, dl_name>>
           ELSE /\ dl_url' = r.url
                /\ dl_ext' = ExtOf(r.url[1])
                /\ dl_name' = IF dl_name = None
                              THEN Some(DefaultName(dl_system[1])) ELSE dl_name
                /\ dl_pc' = "tmp"
                /\ UNCHANGED dl_exc
    /\ UNCHANGED <<comp, dl_version, dl_system, dl_host, dl_names, dl_i, dl_found,
                   dl_ret, dl_destdir, dl_destfile, dl_tmpdir, dl_tmpfiles,
                   dl_zopen, dl_log, nonDl>>

\* line 123, TemporaryDirectory.__enter__ (lines 44-46)
DlEnterTmp ==
    /\ comp = "dl" /\ dl_pc = "tmp"
    /\ dl_tmpdir' = "exists"
    /\ dl_log' = Append(dl_log, Event("mkdtemp", "tmp"))
    /\ dl_pc' = "fetch"
    /\ UNCHANGED <<comp, dl_version, dl_system, dl_name, dl_host, dl_url, dl_ext,
                   dl_names, dl_i, dl_found, dl_exc, dl_ret, dl_destdir,
                   dl_destfile, dl_tmpfiles, dl_zopen, nonDl>>

\* lines 124-125: urlretrieve stores the archive, or the network fails
DlFetch(ok) ==
    /\ comp = "dl" /\ dl_pc = "fetch"
    /\ dl_log' = Append(dl_log, Event("urlretrieve", dl_url[1]))
    /\ IF ok
       THEN /\ dl_tmpfiles' = dl_tmpfiles \cup {<<"data" , dl_ext>>}
            /\ dl_pc' = "open"
            /\ UNCHANGED dl_exc
       ELSE /\ dl_exc' = "URLError"
            /\ dl_pc' = "exit"
            /\ UNCHANGED dl_tmpfiles
    /\ UNCHANGED <<comp, dl_version, dl_system, dl_name, dl_host, dl_url, dl_ext,
                   dl_names, dl_i, dl_found, dl_ret, dl_destdir, dl_destfile,
                   dl_tmpdir, dl_zopen, nonDl>>

\* lines 127-133: the archive is opened by its kind and its entries listed,
\* or it cannot be read
DlOpenArchive(readable, entries) ==
    /\ comp = "dl" /\ dl_pc = "open"
    /\ dl_log' = Append(dl_log,
                        Event(IF dl_ext = ".tar.gz" THEN "tarfile.open"
                              ELSE "ZipFile", "data"))
    /\ IF readable
       THEN /\ dl_zopen' = TRUE
            /\ dl_names' = Listing(dl_ext, entries)
            /\ dl_i' = 1
            /\ dl_found' = FALSE
            /\ dl_pc' = "scan"
            /\ UNCHANGED dl_exc
       ELSE /\ dl_exc' = IF dl_ext = ".tar.gz" THEN "ReadError" ELSE "BadZipFile"
            /\ dl_pc' = "exit"
            /\ UNCHANGED <<dl_zopen, dl_names, dl_i, dl_found>>
    /\ UNCHANGED <<comp, dl_version, dl_system, dl_name, dl_host, dl_url, dl_ext,
                   dl_ret, dl_destdir, dl_destfile, dl_tmpdir, dl_tmpfiles,
                   nonDl>>

\* lines 134-137: one turn of the loop over names
DlScan ==
    /\ comp = "dl" /\ dl_pc = "scan"
    /\ IF dl_i > Len(dl_names)
       THEN dl_pc' = "takeout" /\ UNCHANGED <<dl_i, dl_found>>
       ELSE IF StartsWithOgs(Basename(dl_names[dl_i]))
       THEN dl_found' = TRUE /\ dl_pc' = "takeout" /\ UNCHANGED dl_i
       ELSE dl_i' = dl_i + 1 /\ UNCHANGED <<dl_pc, dl_found>>
    /\ UNCHANGED <<comp, dl_version, dl_system, dl_name, dl_host, dl_url, dl_ext,
                   dl_names, dl_exc, dl_ret, dl_destdir, dl_destfile, dl_tmpdir,
                   dl_tmpfiles, dl_zopen, dl_log, nonDl>>

\* lines 138-141: extract the entry found and copy it to dest; close z_file.
\* The extraction may fail (`extracted` is FALSE); the copy of a directory
\* fails.  z_file.close() is reached only when neither did.
DlTakeOut(extracted) ==
    /\ comp = "dl" /\ dl_pc = "takeout"
    /\ IF ~dl_found
       THEN /\ dl_zopen' = FALSE
            /\ UNCHANGED <<dl_tmpfiles, dl_destfile, dl_exc, dl_log>>
       ELSE IF ~extracted
       THEN /\ dl_exc' = "ExtractError"
            /\ dl_log' = Append(dl_log, Event("extract", dl_names[dl_i].name))
            /\ UNCHANGED <<dl_tmpfiles, dl_zopen, dl_destfile>>
       ELSE /\ dl_tmpfiles' = dl_tmpfiles \cup {dl_names[dl_i].name}
            /\ dl_log' = dl_log \o <<Event("extract", dl_names[dl_i].name),
                                     Event("copy", dl_names[dl_i].name)>>
            /\ IF dl_names[dl_i].dir
               THEN /\ dl_exc' = "IOError"
                    /\ UNCHANGED <<dl_zopen, dl_destfile>>
               ELSE /\ dl_destfile' = Some(dl_names[dl_i].name)
                    /\ dl_zopen' = FALSE
                    /\ UNCHANGED dl_exc
    /\ dl_pc' = "exit"
    /\ UNCHANGED <<comp, dl_version, dl_system, dl_name, dl_host, dl_url, dl_ext,
                   dl_names, dl_i, dl_found, dl_ret, dl_destdir, dl_tmpdir,
                   nonDl>>

\* (mutant) the directory is removed only when no exception is in flight
TmpAfterExit_OnlyOnSuccess(exc) == IF exc = "none" THEN "removed" ELSE "exists"

\* __exit__ (lines 48-49): shutil.rmtree(self.dir_name), whatever exc_type is
TmpAfterExit(exc) == "removed"

\* TemporaryDirectory.__exit__ (lines 48-49), then line 142 or the raise
DlExitTmp ==
    /\ comp = "dl" /\ dl_pc = "exit"
    /\ dl_tmpdir' = TmpAfterExit(dl_exc)
    /\ dl_tmpfiles' = IF dl_tmpdir' = "removed" THEN {} ELSE dl_tmpfiles
    /\ dl_log' = Append(dl_log, Event("rmtree", "tmp"))
    /\ IF dl_exc # "none"
       THEN dl_pc' = "raised" /\ UNCHANGED dl_ret
       ELSE /\ dl_pc' = "returned"
            /\ dl_ret' = IF dl_found THEN Some(<<"path", dl_name[1]>>) ELSE None
    /\ UNCHANGED <<comp, dl_version, dl_system, dl_name, dl_host, dl_url, dl_ext,
                   dl_names, dl_i, dl_found, dl_exc, dl_destdir, dl_destfile,
                   dl_zopen, nonDl>>

--------------------------------------------------------------------------
(* Inputs of the downloader model *)

\* most entries of an archive
MaxEntries == 2

Versions == {"5.7", "5.8", "6.0"}

Systems == {"Linux", "Windows", "Darwin", "FreeBSD"}

Entry(name, dir) == [name |-> name, dir |-> dir]

Entries ==
    { Entry(<<"README">>, FALSE),
      Entry(<<"bin", "ogs_fem">>, FALSE),
      Entry(<<"ogs">>, FALSE),
      Entry(<<"ogs-5.7.0">>, TRUE) }

Archives == SeqsOf(Entries, 0, MaxEntries)

\* what a file found at dest before the call holds
OldFile == <<"old">>

InitDl ==
    /\ comp = "dl"
    /\ dl_pc = "begin"
    /\ dl_version \in Versions
    /\ dl_system \in {None} \cup {Some(y) : y \in Systems}
    /\ dl_name \in {None, Some("my_ogs")}
    /\ dl_host \in {"Linux", "Darwin"}
    /\ dl_url = None /\ dl_ext = "" /\ dl_names = << >>
    /\ dl_i = 1 /\ dl_found = FALSE /\ dl_exc = "none" /\ dl_ret = None
    /\ dl_destdir \in BOOLEAN
    /\ dl_destfile \in (IF dl_destdir THEN {None, Some(OldFile)} ELSE {None})
    /\ dl_tmpdir = "none"
    /\ dl_tmpfiles = {} /\ dl_zopen = FALSE /\ dl_log = << >>
    /\ Idle("dl")

NextDl ==
    \/ DlBegin
    \/ DlLookup
    \/ DlEnterTmp
    \/ \E ok \in BOOLEAN : DlFetch(ok)
    \/ \E readable \in BOOLEAN, entries \in Archives : DlOpenArchive(readable, entries)
    \/ DlScan
    \/ \E extracted \in BOOLEAN : DlTakeOut(extracted)
    \/ DlExitTmp

SpecDl == InitDl /\ [][NextDl]_vars

\* the call runs on to its end
SpecDlFair == SpecDl /\ WF_vars(NextDl)

--------------------------------------------------------------------------
(* Claims about the downloader *)

\* the pair asked for, once line 114 has filled in the system
HasEntry ==
    /\ dl_version \in DOMAIN URLS
    /\ dl_system # None /\ dl_system[1] \in DOMAIN URLS[dl_version]

Logged(what) == {i \in 1..Len(dl_log) : dl_log[i][1] = what}

\* C10: for a pair without entry in URLS the call raises the lookup error
\* with no fetch attempted and no temporary directory created; for a pair
\* with an entry, whatever is fetched is the entry of the table.
C10_LookupBeforeFetch ==
    (comp = "dl" /\ dl_pc # "begin") =>
        /\ ~HasEntry =>
              /\ dl_pc \in {"lookup", "raised"}
              /\ dl_pc = "raised" => dl_exc = "KeyError"
              /\ Logged("urlretrieve") = {} /\ Logged("mkdtemp") = {}
              /\ dl_tmpdir = "none"
        /\ HasEntry =>
              /\ \A i \in Logged("urlretrieve") :
                    dl_log[i][2] = URLS[dl_version][dl_system[1]]
              /\ dl_pc \notin {"lookup", "tmp", "fetch"} => Logged("urlretrieve") # {}
              /\ dl_exc # "KeyError"

\* version 5.8 was asked for Darwin: the call has raised KeyError
C10_Witness ==
    /\ comp = "dl" /\ dl_pc = "raised" /\ dl_exc = "KeyError"
    /\ dl_version = "5.8" /\ dl_system = Some("Darwin")

\* control is back with the caller of a call that made the directory
BackWithTmp ==
    /\ comp = "dl" /\ dl_pc \in {"returned", "raised"}
    /\ Logged("mkdtemp") # {}

DlDone == comp = "dl" /\ dl_pc \in {"returned", "raised"}

\* the archive was opened and its entries listed, and the extraction of
\* the entry found, if one was tried, went well
Listed ==
    /\ (Logged("tarfile.open") \cup Logged("ZipFile")) # {}
    /\ dl_exc \notin {"ReadError", "BadZipFile", "ExtractError"}

\* the entries listed whose base name starts with "ogs"
Matches == {i \in 1..Len(dl_names) : StartsWithOgs(Basename(dl_names[i]))}

FirstMatch == CHOOSE i \in Matches : \A j \in Matches : i <= j

\* C12: with the archive fetched, opened and extracted from without
\* failure, the call returns the destination path exactly when the archive
\* lists an entry whose base name starts with "ogs"; the entry extracted and
\* copied to the destination is then the first such entry and no other is
\* extracted; with no such entry it returns None and the destination file
\* is neither created nor modified.
C12_ReturnsIffMatch ==
    (DlDone /\ Listed) =>
        /\ (Matches # {}) <=> (dl_pc = "returned" /\ dl_ret = Some(<<"path", dl_name[1]>>))
        /\ Matches # {} =>
              /\ dl_destfile = Some(dl_names[FirstMatch].name)
              /\ \A i \in Logged("extract") : dl_log[i][2] = dl_names[FirstMatch].name
        /\ Matches = {} =>
              /\ dl_pc = "returned" /\ dl_ret = None
              /\ Logged("extract") = {} /\ Logged("copy") = {}
              /\ dl_destfile \in {None, Some(OldFile)}

\* the part of the above that holds: the same, for the calls that return
C12_WhenReturned ==
    (DlDone /\ Listed) =>
        /\ dl_pc = "returned" =>
              ((Matches # {}) <=> (dl_ret = Some(<<"path", dl_name[1]>>)))
        /\ (Matches # {} /\ dl_pc = "returned") =>
              dl_destfile = Some(dl_names[FirstMatch].name)
        /\ Matches # {} =>
              \A i \in Logged("extract") : dl_log[i][2] = dl_names[FirstMatch].name
        /\ Matches = {} =>
              /\ dl_pc = "returned" /\ dl_ret = None
              /\ Logged("extract") = {} /\ Logged("copy") = {}
              /\ dl_destfile \in {None, Some(OldFile)}

\* the call began with no destination directory and asked for a pair that
\* has no entry in URLS
UnsupportedNoDir ==
    /\ comp = "dl" /\ dl_pc # "begin"
    /\ ~HasEntry
    /\ Logged("makedirs") # {} \/ ~dl_destdir

\* C21: the lookup in URLS comes before the destination directory is made:
\* a call for a pair without entry, begun with no destination directory,
\* fails with the directory still absent and no makedirs done.
C21_LookupBeforeMakedirs ==
    UnsupportedNoDir =>
        /\ ~dl_destdir
        /\ Logged("makedirs") = {}

\* what holds of the same calls: the directory is made at lines 116-117 before
\* line 118 raises, and nothing else on disk has changed by then
C21_MakedirsBeforeLookup ==
    UnsupportedNoDir =>
        /\ dl_destdir
        /\ Len(dl_log) = 1 /\ Logged("makedirs") = {1}
        /\ dl_destfile = None
        /\ dl_tmpdir = "none" /\ dl_tmpfiles = {}
        /\ dl_pc \in {"lookup", "raised"}
        /\ dl_pc = "raised" => dl_exc = "KeyError"

\* version 5.8 for Darwin with no destination directory: KeyError was raised
\* and the directory is there
C21_DirLeftBehind ==
    /\ UnsupportedNoDir /\ dl_pc = "raised" /\ dl_exc = "KeyError"
    /\ dl_version = "5.8" /\ dl_system = Some("Darwin")
    /\ dl_destdir /\ Logged("makedirs") = {1}

--------------------------------------------------------------------------
(* The mesh viewer: show_mesh of msh/viewer.py.  mlab, the exporter, print  *)
(* and the temporary file are outside; calls to them are logged.           *)

\* np.inf
PosInf == 1000

MaxOf(S) == CHOOSE x \in S : \A y \in S : y <= x

MinOf(S) == CHOOSE x \in S : \A y \in S : x <= y

\* lines 103-107: the loop over mesh["material_id"], from np.inf and 0.0
IdBounds(material_id) ==
    LET ids == UNION {Range(material_id[k]) : k \in DOMAIN material_id}
    IN  [min_id |-> MinOf(ids \cup {PosInf}), max_id |-> MaxOf(ids \cup {0})]

\* line 108
IdNo(material_id) ==
    IdBounds(material_id).max_id - IdBounds(material_id).min_id + 1

\* (mutant) the count of colours is the span itself
NumberOfColors_Span(id_no) == id_no

\* line 113
NumberOfColors(id_no) == IF id_no >= 2 THEN id_no ELSE 2

\* line 114
NumberOfLabels(id_no) == IF id_no <= 64 THEN id_no ELSE 64

\* (mutant) the toolkit is never found missing
Unavailable_Never(avail) == FALSE

\* line 62: not MAYA_AVAIL
Unavailable(avail) == ~avail

\* lines 87-91: the surface as it is made, edges visible
NewSurface ==
    [edge_visibility |-> TRUE, line_width |-> "1.0", interpolation |-> "flat",
     scalars |-> "", scalar_visibility |-> TRUE, lut_mode |-> "",
     number_of_colors |-> None, number_of_labels |-> None,
     data_range |-> None, data_name |-> "", show_scalar_bar |-> FALSE,
     shadow |-> FALSE, label_format |-> "", name |-> ""]

\* lines 62-64
VwGuard ==
    /\ comp = "view" /\ vw_pc = "call"
    /\ IF Unavailable(vw_avail)
       THEN /\ vw_log' = Append(vw_log, <<"print", "Could not import 'mayavi'!">>)
            /\ vw_ret' = "None"
            /\ vw_pc' = "returned"
       ELSE /\ vw_pc' = "name"
            /\ UNCHANGED <<vw_log, vw_ret>>
    /\ UNCHANGED <<comp, vw_avail, vw_mesh, vw_cell, vw_mat, vw_elem, vw_name,
                   vw_tmp, vw_surf, nonView>>

\* lines 66-70
VwCellName ==
    /\ comp = "view" /\ vw_pc = "name"
    /\ vw_name' = IF vw_cell = None THEN vw_name
                  ELSE IF ~vw_cell[1].dict THEN "add_data"
                  ELSE vw_cell[1].keys[1]
    /\ vw_pc' = "export"
    /\ UNCHANGED <<comp, vw_avail, vw_mesh, vw_cell, vw_mat, vw_elem, vw_tmp,
                   vw_log, vw_surf, vw_ret, nonView>>

\* lines 73-83: close the scenes, make the temporary file, export the mesh
VwExport ==
    /\ comp = "view" /\ vw_pc = "export"
    /\ vw_tmp' = "open"
    /\ vw_log' = vw_log \o
          << <<"mlab.close", "all">>,
             <<"NamedTemporaryFile", ".vtu">>,
             <<"export_mesh", [export_material_id |-> vw_mat,
                               export_element_id |-> vw_elem,
                               cell_data_by_id |-> vw_cell]>> >>
    /\ vw_pc' = "load"
    /\ UNCHANGED <<comp, vw_avail, vw_mesh, vw_cell, vw_mat, vw_elem, vw_name,
                   vw_surf, vw_ret, nonView>>

\* lines 85-91
VwLoad ==
    /\ comp = "view" /\ vw_pc = "load"
    /\ vw_log' = vw_log \o << <<"mlab.pipeline.open", "vtkfile">>,
                              <<"mlab.pipeline.surface", "data_source">> >>
    /\ vw_surf' = Some(NewSurface)
    /\ vw_pc' = "color"
    /\ UNCHANGED <<comp, vw_avail, vw_mesh, vw_cell, vw_mat, vw_elem, vw_name,
                   vw_tmp, vw_ret, nonView>>

\* lines 94-130
VwColor ==
    /\ comp = "view" /\ vw_pc = "color"
    /\ LET surface == vw_surf[1]
           id_no == IdNo(vw_mesh)
       IN  vw_surf' = Some(
             IF vw_cell # None
             THEN [surface EXCEPT !.scalars = vw_name,
                                  !.shadow = TRUE,
                                  !.edge_visibility = FALSE,
                                  !.lut_mode = "RdYlBu",
                                  !.show_scalar_bar = TRUE]
             ELSE IF vw_mat
             THEN [surface EXCEPT !.scalars = "material_id",
                                  !.data_range = Some(<<IdBounds(vw_mesh).min_id,
                                                        IdBounds(vw_mesh).max_id>>),
                                  !.number_of_colors = Some(NumberOfColors(id_no)),
                                  !.number_of_labels = Some(NumberOfLabels(id_no)),
                                  !.data_name = "Material ID",
                                  !.shadow = TRUE,
                                  !.show_scalar_bar = TRUE,
                                  !.label_format = "%.0f"]
             ELSE IF vw_elem
             THEN [surface EXCEPT !.scalars = "element_id",
                                  !.number_of_labels = Some(2),
                                  !.data_name = "Element ID",
                                  !.shadow = TRUE,
                                  !.show_scalar_bar = TRUE,
                                  !.label_format = "%.0f"]
             ELSE [surface EXCEPT !.scalar_visibility = FALSE])
    /\ vw_pc' = "show"
    /\ UNCHANGED <<comp, vw_avail, vw_mesh, vw_cell, vw_mat, vw_elem, vw_name,
                   vw_tmp, vw_log, vw_ret, nonView>>

\* lines 132-137
VwShow ==
    /\ comp = "view" /\ vw_pc = "show"
    /\ vw_surf' = Some([vw_surf[1] EXCEPT !.name = "OGS mesh"])
    /\ vw_log' = Append(vw_log, <<"mlab.show", "">>)
    /\ vw_tmp' = "deleted"
    /\ vw_ret' = "surface"
    /\ vw_pc' = "returned"
    /\ UNCHANGED <<comp, vw_avail, vw_mesh, vw_cell, vw_mat, vw_elem, vw_name,
                   nonView>>

\* meshes by their material ids per element type: spans 1, 2, 3, 64 and 71
Meshes ==
    { [tri |-> <<2>>],
      [tri |-> <<0, 1>>],
      [tri |-> <<3>>, quad |-> <<5, 4>>],
      [tri |-> <<1, 1>>, quad |-> <<64>>],
      [tri |-> <<0>>, quad |-> <<70>>] }

\* show_cell_data: nothing, an array, a mapping of one or of two names
CellData ==
    { None,
      Some([dict |-> FALSE, keys |-> << >>]),
      Some([dict |-> TRUE, keys |-> <<"head">>]),
      Some([dict |-> TRUE, keys |-> <<"conc", "head">>]) }

InitView ==
    /\ comp = "view"
    /\ vw_pc = "call"
    /\ vw_avail \in BOOLEAN
    /\ vw_mesh \in Meshes
    /\ vw_cell \in CellData
    /\ vw_mat \in BOOLEAN /\ vw_elem \in BOOLEAN
    /\ vw_name = "" /\ vw_tmp = "none" /\ vw_log = << >>
    /\ vw_surf = None /\ vw_ret = "none"
    /\ Idle("view")

NextView ==
    \/ VwGuard
    \/ VwCellName
    \/ VwExport
    \/ VwLoad
    \/ VwColor
    \/ VwShow

SpecView == InitView /\ [][NextView]_vars

--------------------------------------------------------------------------
(* Claims about the viewer *)

VwLogged(what) == {i \in 1..Len(vw_log) : vw_log[i][1] = what}

\* C13: with the toolkit unavailable show_mesh, for every mesh and every
\* combination of its options, returns None without raising, makes no
\* temporary file, does not call the exporter and leaves the mesh as it is.
C13_NoToolkitNoOp ==
    /\ []((comp = "view" /\ ~vw_avail) =>
            /\ vw_pc \in {"call", "returned"}
            /\ vw_tmp = "none"
            /\ VwLogged("export_mesh") = {} /\ VwLogged("NamedTemporaryFile") = {}
            /\ vw_surf = None
            /\ vw_pc = "returned" => vw_ret = "None")
    /\ [][(comp = "view" /\ ~vw_avail) => vw_mesh' = vw_mesh]_vars

\* the toolkit is missing, cell data and both flags are given: returned
C13_Witness ==
    /\ comp = "view" /\ ~vw_avail /\ vw_pc = "returned" /\ vw_ret = "None"
    /\ vw_cell # None /\ vw_mat /\ vw_elem
    /\ VwLogged("print") # {}

\* the colouring modes whose settings the surface bears
ModesOf(surface) ==
    {m \in {"cell_data", "material_id", "element_id", "off"} :
        \/ m = "cell_data" /\ surface.lut_mode = "RdYlBu"
        \/ m = "material_id" /\ surface.data_name = "Material ID"
        \/ m = "element_id" /\ surface.data_name = "Element ID"
        \/ m = "off" /\ ~surface.scalar_visibility}

\* the breadth of the material ids of the mesh, first to last
IdSpan ==
    LET ids == UNION {Range(vw_mesh[k]) : k \in DOMAIN vw_mesh}
    IN  MaxOf(ids) - MinOf(ids) + 1

\* C14: with the toolkit available show_mesh applies exactly one colouring
\* mode: cell data if given, whatever the flags, else material id if
\* show_material_id, else element id if show_element_id, else scalar
\* colouring off; edges end invisible in the cell-data mode and visible in
\* the other three; in material-id mode the colours number max(span, 2) and
\* the labels min(span, 64).
C14_ColoringPrecedence ==
    (comp = "view" /\ vw_avail /\ vw_pc \in {"show", "returned"}) =>
        LET surface == vw_surf[1]
            mode == IF vw_cell # None THEN "cell_data"
                    ELSE IF vw_mat THEN "material_id"
                    ELSE IF vw_elem THEN "element_id" ELSE "off"
        IN  /\ ModesOf(surface) = {mode}
            /\ surface.scalar_visibility <=> (mode # "off")
            /\ mode = "cell_data" => surface.scalars = vw_name
            /\ mode \in {"material_id", "element_id"} => surface.scalars = mode
            /\ surface.edge_visibility <=> (mode # "cell_data")
            /\ mode = "material_id" =>
                  /\ surface.number_of_colors =
                        Some(IF IdSpan >= 2 THEN IdSpan ELSE 2)
                  /\ surface.number_of_labels =
                        Some(IF IdSpan <= 64 THEN IdSpan ELSE 64)
            /\ mode # "material_id" => surface.number_of_colors = None

\* material-id mode on a mesh of one material: two colours, one label
C14_Witness ==
    /\ comp = "view" /\ vw_avail /\ vw_pc = "returned" /\ vw_ret = "surface"
    /\ vw_cell = None /\ vw_mat /\ vw_elem
    /\ IdSpan = 1
    /\ vw_surf[1].number_of_colors = Some(2)
    /\ vw_surf[1].number_of_labels = Some(1)

--------------------------------------------------------------------------
(* The array tools of tools/tools.py.  A float is counted in twentieths    *)
(* (3 stands for 0.15); an array is given by its rows; positions in an     *)
(* array count from 1.                                                     *)

Array2(rows) == [ndim |-> 2, rows |-> rows]

\* a 1-D array: its numbers, kept as the one row they make
Array1(vals) == [ndim |-> 1, rows |-> <<vals>>]

\* 10 ** decimals, for 0, 1 and 2 decimals
Pow10(d) == IF d = 0 THEN 1 ELSE IF d = 1 THEN 10 ELSE 100

\* np.rint(a / b) for b > 0: the nearest whole number, a tie to the even one
Rint(a, b) ==
    LET q == a \div b
        r == a - q * b
    IN  IF 2 * r < b THEN q
        ELSE IF 2 * r > b THEN q + 1
        ELSE IF q % 2 = 0 THEN q ELSE q + 1

\* np.around(x, decimals): the float n / 10**decimals with its sign bit;
\* a negative x that rounds to zero gives -0.0
Around(x, decimals) ==
    [n |-> Rint(x * Pow10(decimals), 20), neg |-> x < 0]

\* the void view of line 278: two rounded rows are one when their bytes are
SameBytes(a, b) == a = b

\* an order of the byte strings (which one does not show in what
\* unique_rows returns, for lines 284-287 undo it)
ByteKey(v) == IF v.neg THEN 2000 - v.n ELSE v.n

RowLess(a, b) ==
    \E i \in 1..Len(a) :
        /\ \A j \in 1..(i - 1) : a[j] = b[j]
        /\ ByteKey(a[i]) < ByteKey(b[i])

\* np.argsort of distinct whole numbers
Argsort(seq) ==
    CHOOSE p \in [1..Len(seq) -> 1..Len(seq)] :
        \A i, j \in 1..Len(seq) : i < j => seq[p[i]] < seq[p[j]]

\* np.unique(tmp, return_index=True, return_inverse=True)
NpUnique(rows) ==
    LET firsts == {n \in 1..Len(rows) :
                      \A k \in 1..(n - 1) : ~SameBytes(rows[k], rows[n])}
        m == Cardinality(firsts)
        i_x == CHOOSE s \in [1..m -> firsts] :
                  \A i, j \in 1..m : i < j => RowLess(rows[s[i]], rows[s[j]])
    IN  [i_x |-> i_x,
         i_xr |-> [n \in 1..Len(rows) |->
                     CHOOSE k \in 1..m :
                        \/ i_x[k] = n
                        \/ i_x[k] < n /\ SameBytes(rows[i_x[k]], rows[n])]]

\* replace(arr, inval, outval), lines 223-234
replace(arr, inval, outval) ==
    LET sort == Argsort(inval)
        inv == [k \in 1..Len(inval) |-> inval[sort[k]]]
        outv == [k \in 1..Len(inval) |-> outval[sort[k]]]
        searchsorted(v) == 1 + Cardinality({k \in 1..Len(inv) : inv[k] < v})
    IN  [n \in 1..Len(arr) |->
            IF arr[n] \in Range(inv) THEN outv[searchsorted(arr[n])] ELSE arr[n]]

\* lines 272-273
UrCheck ==
    /\ comp = "unique" /\ tl_pc = "call"
    /\ IF tl_data.ndim # 2
       THEN tl_exc' = "ValueError" /\ tl_pc' = "raised"
       ELSE tl_pc' = "round" /\ UNCHANGED tl_exc
    /\ UNCHANGED <<comp, tl_data, tl_arg, tl_mid, tl_ret, nonTool>>

\* lines 276-280
UrRound ==
    /\ comp = "unique" /\ tl_pc = "round"
    /\ tl_mid' = [n \in 1..Len(tl_data.rows) |->
                    [j \in 1..Len(tl_data.rows[n]) |->
                        Around(tl_data.rows[n][j], tl_arg)]]
    /\ tl_pc' = "unique"
    /\ UNCHANGED <<comp, tl_data, tl_arg, tl_ret, tl_exc, nonTool>>

\* line 281
UrUnique ==
    /\ comp = "unique" /\ tl_pc = "unique"
    /\ tl_mid' = NpUnique(tl_mid)
    /\ tl_pc' = "sort"
    /\ UNCHANGED <<comp, tl_data, tl_arg, tl_ret, tl_exc, nonTool>>

\* lines 282-289
UrReturn ==
    /\ comp = "unique" /\ tl_pc = "sort"
    /\ LET i_x == tl_mid.i_x
           i_xr == tl_mid.i_xr
           out == [k \in 1..Len(i_x) |-> tl_data.rows[i_x[k]]]
           sort == Argsort(i_x)
           ixsort == [k \in 1..Len(i_x) |-> i_x[sort[k]]]
           ixrsort == replace(i_xr, sort, [k \in 1..Len(i_x) |-> k])
       IN  tl_ret' = [result |-> [k \in 1..Len(i_x) |-> out[sort[k]]],
                      ix |-> ixsort, ixr |-> ixrsort]
    /\ tl_pc' = "returned"
    /\ UNCHANGED <<comp, tl_data, tl_arg, tl_mid, tl_exc, nonTool>>

\* most rows of an array given to the tools
MaxToolRows == 3

\* rows of one and of two columns: -0.05, 0.0, 0.05, 0.55 and pairs of them
ToolRows(c) ==
    IF c = 1 THEN {<<-1>>, <<0>>, <<1>>, <<11>>}
    ELSE {<<0, 0>>, <<-1, 0>>, <<0, 11>>, <<1, 0>>}

InitUnique ==
    /\ comp = "unique"
    /\ tl_pc = "call"
    /\ tl_data \in {Array2(r) : r \in SeqsOf(ToolRows(1), 0, MaxToolRows)}
                   \cup {Array2(r) : r \in SeqsOf(ToolRows(2), 1, MaxToolRows)}
                   \cup {Array1(<<0, 11>>)}
    /\ tl_arg \in 0..2
    /\ tl_mid = << >> /\ tl_ret = << >> /\ tl_exc = "none"
    /\ Idle("unique")

NextUnique ==
    \/ UrCheck
    \/ UrRound
    \/ UrUnique
    \/ UrReturn

SpecUnique == InitUnique /\ [][NextUnique]_vars

--------------------------------------------------------------------------
(* Claims about unique_rows *)

\* the numbers of row n of data after rounding to the decimals given
Rounded(row) == [j \in 1..Len(row) |-> Around(row[j], tl_arg).n]

\* C15: unique_rows returns (result, ix, ixr) with data[ix] == result
\* unrounded, result[ixr[n]] equal to data[n] after rounding for every row
\* n, no two rows of result equal after rounding, ix[k] the first place of
\* result row k in data, and ix strictly increasing.
C15_UniqueRowsContract ==
    (comp = "unique" /\ tl_pc = "returned") =>
        LET data == tl_data.rows
            result == tl_ret.result
            ix == tl_ret.ix
            ixr == tl_ret.ixr
        IN  /\ Len(ix) = Len(result) /\ Len(ixr) = Len(data)
            /\ \A k \in 1..Len(result) : result[k] = data[ix[k]]
            /\ \A n \in 1..Len(data) :
                  /\ ixr[n] \in 1..Len(result)
                  /\ Rounded(result[ixr[n]]) = Rounded(data[n])
            /\ \A k, l \in 1..Len(result) :
                  k # l => Rounded(result[k]) # Rounded(result[l])
            /\ \A k \in 1..Len(result) :
                  \A n \in 1..(ix[k] - 1) : data[n] # result[k]
            /\ \A k, l \in 1..Len(result) : k < l => ix[k] < ix[l]

\* the same with rows told apart by the bytes of their rounded numbers, so
\* that -0.0 is not 0.0: this much holds
C15_UniqueByBytes ==
    (comp = "unique" /\ tl_pc = "returned") =>
        LET data == tl_data.rows
            result == tl_ret.result
            ix == tl_ret.ix
            ixr == tl_ret.ixr
            bytes(row) == [j \in 1..Len(row) |-> Around(row[j], tl_arg)]
        IN  /\ Len(ix) = Len(result) /\ Len(ixr) = Len(data)
            /\ \A k \in 1..Len(result) : result[k] = data[ix[k]]
            /\ \A n \in 1..Len(data) :
                  /\ ixr[n] \in 1..Len(result)
                  /\ bytes(result[ixr[n]]) = bytes(data[n])
            /\ \A k, l \in 1..Len(result) :
                  k # l => bytes(result[k]) # bytes(result[l])
            /\ \A k \in 1..Len(result) :
                  \A n \in 1..(ix[k] - 1) : bytes(data[n]) # bytes(result[k])
            /\ \A k, l \in 1..Len(result) : k < l => ix[k] < ix[l]

--------------------------------------------------------------------------
(* shift_points of tools/tools.py.  The floats here are whole numbers kept  *)
(* to MantBits significant bits, as a float64 keeps 53: a sum that needs    *)
(* more is rounded to the nearest float, a tie to the even significand.     *)

\* significant bits of a float
MantBits == 3

RECURSIVE Pow2(_)
Pow2(n) == IF n = 0 THEN 1 ELSE 2 * Pow2(n - 1)

Abs(x) == IF x < 0 THEN -x ELSE x

\* the spacing of the floats around a: 1 below 2**MantBits, doubling from
\* there with each doubling of a
RECURSIVE Spacing(_, _)
Spacing(a, s) == IF a < Pow2(MantBits) * s THEN s ELSE Spacing(a, 2 * s)

\* the float nearest to the real number x
Fl(x) ==
    LET s == Spacing(Abs(x), 1)
    IN  IF x < 0 THEN -(Rint(-x, s) * s) ELSE Rint(x, s) * s

\* (mutant) every column is shifted by vector[0]
ShiftColumn_First(column, vector, i) ==
    [n \in 1..Len(column) |-> Fl(column[n] + vector[1])]

\* line 60: new_points[:, i] += vector[i]
ShiftColumn(column, vector, i) ==
    [n \in 1..Len(column) |-> Fl(column[n] + vector[i])]

\* lines 58-61: the loop runs over the first three columns of a deep copy
shift_points(points, vector) ==
    LET new_points == points
        col(i) == ShiftColumn([n \in 1..Len(new_points) |-> new_points[n][i]],
                              vector, i)
    IN  [n \in 1..Len(new_points) |->
            [i \in 1..Len(new_points[n]) |->
                IF i <= 3 THEN col(i)[n] ELSE new_points[n][i]]]

\* -vector
Neg(vector) == [i \in 1..Len(vector) |-> -vector[i]]

\* q = shift_points(p, v); p is not written to
ShFirst ==
    /\ comp = "shift" /\ tl_pc = "call"
    /\ tl_mid' = shift_points(tl_data.rows, tl_arg)
    /\ tl_pc' = "once"
    /\ UNCHANGED <<comp, tl_data, tl_arg, tl_ret, tl_exc, nonTool>>

\* shift_points(q, -v)
ShSecond ==
    /\ comp = "shift" /\ tl_pc = "once"
    /\ tl_ret' = shift_points(tl_mid, Neg(tl_arg))
    /\ tl_pc' = "twice"
    /\ UNCHANGED <<comp, tl_data, tl_arg, tl_mid, tl_exc, nonTool>>

\* points by rows, and vectors
ShiftRows == {<<0, 0, 0>>, <<1, 3, 7>>, <<7, 1, 0>>, <<-3, 5, 2>>}

ShiftVectors ==
    {<<0, 0, 0>>, <<1, 1, 1>>, <<-1, 2, 0>>, <<8, 0, 0>>, <<16, -8, 1>>,
     <<0, 0, -16>>}

InitShift ==
    /\ comp = "shift"
    /\ tl_pc = "call"
    /\ tl_data \in {Array2(r) : r \in SeqsOf(ShiftRows, 0, MaxToolRows)}
    /\ tl_arg \in ShiftVectors
    /\ tl_mid = << >> /\ tl_ret = << >> /\ tl_exc = "none"
    /\ Idle("shift")

NextShift ==
    \/ ShFirst
    \/ ShSecond

SpecShift == InitShift /\ [][NextShift]_vars

--------------------------------------------------------------------------
(* Claims about shift_points *)

\* the places of the array
Cells == {<<n, i>> : n \in 1..Len(tl_data.rows), i \in 1..3}

--------------------------------------------------------------------------
(* The Medium-Properties file class, mmp/core.py.  MKEYS, SKEYS and STD    *)
(* are the class's; add_block is the base class's and follows the          *)
(* specification.                                                          *)

MMP_MKEYS == <<"MEDIUM_PROPERTIES">>

\* (mutant) the vocabulary without POROSITY
MMP_SKEYS_NoPorosity ==
    << <<
      "CAPILLARY_PRESSURE", "CHANNEL", "COMPOUND_DEPENDENT_DT",
      "CONDUCTIVITY_MODEL", "CONVERSION_FACTOR", "DATA", "DIFFUSION",
      "DIS_TYPE", "ELEMENT_VOLUME_MULTIPLYER", "EVAPORATION",
      "FLOWLINEARITY", "GEOMETRY_AREA", "GEOMETRY_DIMENSION",
      "GEOMETRY_INCLINATION", "GEO_TYPE", "HEAT_DISPERSION",
      "HEAT_TRANSFER", "INTERPHASE_FRICTION", "MASS_DISPERSION",
      "MMP_TYPE", "MSH_TYPE", "NAME", "ORGANIC_CARBON",
      "PARTICLE_DIAMETER", "PCS_TYPE", "PERMEABILITY_FUNCTION_DEFORMATION",
      "PERMEABILITY_FUNCTION_EFFSTRESS", "PERMEABILITY_FUNCTION_POROSITY",
      "PERMEABILITY_FUNCTION_PRESSURE", "PERMEABILITY_FUNCTION_STRAIN",
      "PERMEABILITY_FUNCTION_STRESS", "PERMEABILITY_FUNCTION_VELOCITY",
      "PERMEABILITY_SATURATION", "PERMEABILITY_TENSOR",
      "PERMEABILITY_DISTRIBUTION", "POROSITY_DISTRIBUTION", "RILL",
      "SPECIFIC_STORAGE", "STORAGE", "STORAGE_FUNCTION_EFFSTRESS",
      "SURFACE_FRICTION", "TORTUOSITY", "TRANSFER_COEFFICIENT",
      "UNCONFINED", "VOL_BIO", "VOL_MAT", "WIDTH" >> >>

\* SKEYS: for each main keyword the sub-keywords it allows
MMP_SKEYS ==
    << <<
      "CAPILLARY_PRESSURE", "CHANNEL", "COMPOUND_DEPENDENT_DT",
      "CONDUCTIVITY_MODEL", "CONVERSION_FACTOR", "DATA", "DIFFUSION",
      "DIS_TYPE", "ELEMENT_VOLUME_MULTIPLYER", "EVAPORATION",
      "FLOWLINEARITY", "GEOMETRY_AREA", "GEOMETRY_DIMENSION",
      "GEOMETRY_INCLINATION", "GEO_TYPE", "HEAT_DISPERSION",
      "HEAT_TRANSFER", "INTERPHASE_FRICTION", "MASS_DISPERSION",
      "MMP_TYPE", "MSH_TYPE", "NAME", "ORGANIC_CARBON",
      "PARTICLE_DIAMETER", "PCS_TYPE", "PERMEABILITY_FUNCTION_DEFORMATION",
      "PERMEABILITY_FUNCTION_EFFSTRESS", "PERMEABILITY_FUNCTION_POROSITY",
      "PERMEABILITY_FUNCTION_PRESSURE", "PERMEABILITY_FUNCTION_STRAIN",
      "PERMEABILITY_FUNCTION_STRESS", "PERMEABILITY_FUNCTION_VELOCITY",
      "PERMEABILITY_SATURATION", "PERMEABILITY_TENSOR",
      "PERMEABILITY_DISTRIBUTION", "POROSITY", "POROSITY_DISTRIBUTION",
      "RILL", "SPECIFIC_STORAGE", "STORAGE", "STORAGE_FUNCTION_EFFSTRESS",
      "SURFACE_FRICTION", "TORTUOSITY", "TRANSFER_COEFFICIENT",
      "UNCONFINED", "VOL_BIO", "VOL_MAT", "WIDTH" >> >>

\* STD: the standard block (the values as texts)
MMP_STD ==
    [k \in {"GEOMETRY_DIMENSION", "STORAGE", "PERMEABILITY_TENSOR", "POROSITY"} |->
        CASE k = "GEOMETRY_DIMENSION" -> "2"
          [] k = "STORAGE" -> "[[1, 1.0e-4]]"
          [] k = "PERMEABILITY_TENSOR" -> "[['ISOTROPIC', 1.0e-4]]"
          [] OTHER -> "[[1, 0.2]]"]

\* whether the main keyword at place mkey allows the sub-keyword
AllowedSkey(mkey, skey) == skey \in Range(MMP_SKEYS[mkey])

\* the block add_block makes: the values given, laid over the standard ones
MergedBlock(block) ==
    [k \in DOMAIN block \cup DOMAIN MMP_STD |->
        IF k \in DOMAIN block THEN block[k] ELSE MMP_STD[k]]

\* most blocks of a file
MaxMmpBlocks == 2

\* add_block(**block): every sub-keyword given is looked up first; an
\* unknown one ends the call with InvalidInput and nothing appended
MmpAddBlock(block) ==
    /\ comp = "mmp"
    /\ Len(mm_cont) < MaxMmpBlocks
    /\ IF \A k \in DOMAIN block : AllowedSkey(1, k)
       THEN /\ mm_cont' = Append(mm_cont, MergedBlock(block))
            /\ mm_last' = [op |-> "add_block", given |-> DOMAIN block,
                           exc |-> "none"]
       ELSE /\ mm_cont' = mm_cont
            /\ mm_last' = [op |-> "add_block", given |-> DOMAIN block,
                           exc |-> "InvalidInput"]
    /\ UNCHANGED <<comp, nonMmp>>

\* sub-keywords a caller gives: four of the vocabulary, the last of it
\* among them, and three that are not in it
GivenKeys ==
    {"POROSITY", "NAME", "GEOMETRY_DIMENSION", "WIDTH",
     "PERMEABILITY", "porosity", "MASS_DISPERSION "}

GivenBlocks ==
    UNION {[ks -> {"given"}] : ks \in {S \in SUBSET GivenKeys : Cardinality(S) <= 2}}

InitMmp ==
    /\ comp = "mmp"
    /\ mm_cont = << >>
    /\ mm_last = [op |-> "init", given |-> {}, exc |-> "none"]
    /\ Idle("mmp")

NextMmp ==
    \E block \in GivenBlocks : MmpAddBlock(block)

SpecMmp == InitMmp /\ [][NextMmp]_vars

--------------------------------------------------------------------------
(* Claims about the Medium-Properties file class *)

Vocabulary == Range(MMP_SKEYS[1])

\* an add_block call that ends in InvalidInput and appends nothing exactly
\* when a sub-keyword given is outside the vocabulary; the standard block
\* lies within the vocabulary
RejectsUnknown ==
    /\ [](comp = "mmp" =>
            /\ DOMAIN MMP_STD \subseteq Vocabulary
            /\ \A i \in 1..Len(mm_cont) : DOMAIN mm_cont[i] \subseteq Vocabulary)
    /\ [][(comp = "mmp" /\ mm_last'.op = "add_block") =>
            IF mm_last'.given \subseteq Vocabulary
            THEN mm_last'.exc = "none" /\ Len(mm_cont') = Len(mm_cont) + 1
            ELSE mm_last'.exc = "InvalidInput" /\ mm_cont' = mm_cont]_vars

\* C17: the vocabulary under MEDIUM_PROPERTIES has exactly 45 sub-keywords;
\* a block with a sub-keyword outside it fails with InvalidInput and is not
\* appended; every key of the standard block is inside it.
C17_Vocabulary45 ==
    /\ [](comp = "mmp" =>
            /\ Len(MMP_SKEYS[1]) = 45 /\ Cardinality(Vocabulary) = 45)
    /\ RejectsUnknown

\* C17 with the count the class has: exactly 48 sub-keywords, none twice
C17_Vocabulary48 ==
    /\ [](comp = "mmp" =>
            /\ Len(MMP_MKEYS) = 1 /\ Len(MMP_SKEYS) = 1
            /\ Len(MMP_SKEYS[1]) = 48 /\ Cardinality(Vocabulary) = 48)
    /\ RejectsUnknown

\* after a block was added, a block with an unknown sub-keyword beside a
\* known one was turned down: one block stands
C17_Witness ==
    /\ comp = "mmp" /\ mm_last.op = "add_block" /\ mm_last.exc = "InvalidInput"
    /\ mm_last.given = {"POROSITY", "PERMEABILITY"}
    /\ Len(mm_cont) = 1

==========================================================================
